---- MODULE Spec2Model ----
(***************************************************************************)
(* Model of the BacPipes gateway worker (src/bacpipes): the polling loop   *)
(* of PollingWorker.run, the discovery runner run_discovery_async driven   *)
(* by DiscoveryState.start_discovery, the override and write-command       *)
(* pipeline, and the poll scheduler's deadline arithmetic.                 *)
(*                                                                         *)
(* The worker (a lifespan task) and the discovery runner (awaited inside a *)
(* UI event handler) are coroutines of one asyncio event loop: a step of   *)
(* the model is the code between two awaits/yields.  The MQTT callback     *)
(* runs on the paho network thread and is one step of its own.             *)
(***************************************************************************)
EXTENDS Integers, Sequences, FiniteSets, TLC

\* ------------------------------------------------------------- bounds
NSessions == 2      \* UI sessions that can press "start discovery"
MaxJobs == 3        \* DiscoveryJob rows ever created in a run of the model
NPollPoints == 2    \* enabled points walked by one poll_and_publish pass
MaxTime == 400      \* last second of the cadence clock
MaxSleep == 2       \* whole seconds from one poll pass to the next (sleep(1) + the pass)
MaxQueue == 1       \* override writes waiting in pending_overrides
MaxCmdQueue == 1    \* commands waiting in WriteHandler.pending_commands
NPoints == 2        \* Point rows a discovery leaves in the Config Store
MaxArrivals == 3    \* override messages accepted in a run of the loop model
MaxScans == 3       \* discoveries started in a run of the cancellation model
MaxClients == 3     \* MQTTClient objects the worker creates in a run of the model
NScanDevices == 2   \* BACnet devices that answer a Who-Is
ObjectsPerDevice == 2 \* objects of a device other than device and network-port
MaxIAm == 3         \* I-Am responses received in one scan

\* ------------------------------------------------- program constants
max_wait == 20      \* discovery.py:180
SecondsPerMinute == 60   \* polling.py:333 and 360
AlignWindow == 2         \* polling.py:361
max_retries == 3         \* bacnet_client.py:43

Sessions == 1..NSessions
JobIds == 1..MaxJobs

VARIABLES
    lockFile,    \* DISCOVERY_LOCK_FILE exists
    wpc,         \* where PollingWorker.run is suspended
    client,      \* self.bacnet_client: "None" | "bound" (app set) | "unbound" (app None)
    tickLock,    \* what os.path.exists(DISCOVERY_LOCK_FILE) returned in this iteration
    pollIdx,     \* points of the current poll_and_publish pass already walked
    upc,         \* per UI session: where start_discovery is suspended
    waitI,       \* per UI session: next index i of the port-wait loop
    curJob,      \* per UI session: self.current_job_id (0 = None)
    job,         \* DiscoveryJob.status by job id ("none" = row not created)
    dapp,        \* per UI session: the run's DiscoveryApp endpoint is open
    leaked,      \* an ended run left its DiscoveryApp endpoint open
    ev           \* the observable effect of the last step

workerVars == <<wpc, client, tickLock, pollIdx>>
discoveryVars == <<upc, waitI, curJob, job, dapp, leaked>>
coordVars == <<lockFile, workerVars, discoveryVars, ev>>

\* PollingWorker.poll_and_publish for one enabled point, on a clock of whole
\* seconds
VARIABLES
    now,             \* int(time.time())
    pollInterval,    \* Point.pollInterval of the point
    point_last_poll, \* self.point_last_poll[point_id] as <<t>>; <<>> = key absent
    cpc,             \* "poll" = about to call poll_and_publish, "sleep" = in sleep(1)
    prevRead,        \* time of the previous successful read (-1 = none yet)
    gap,             \* seconds between the last two successful reads (0 = none yet)
    failedSince      \* a read failed since the previous successful read

cadenceVars == <<now, pollInterval, point_last_poll, cpc, prevRead, gap, failedSince>>

\* the override pipeline of PollingWorker and the WriteHandler class
VARIABLES
    point,             \* the Point row of the Config Store
    restartFlag,       \* RESTART_FLAG_FILE exists
    topic_to_point,    \* self.topic_to_point, built from the store at start/restart
    pending_overrides, \* self.pending_overrides
    pending_commands,  \* WriteHandler.pending_commands
    xpc,               \* where PollingWorker.run is suspended (override pipeline view)
    probe,             \* the first override that met every routing condition:
                       \* its fate, its place in pending_overrides, and the loop
                       \* iterations begun since it arrived
    wev                \* the observable effect of the last step

writeVars == <<point, restartFlag, topic_to_point, pending_overrides,
               pending_commands, xpc, probe, wev>>

\* the Point rows of the Config Store and the UI operations on them
VARIABLES
    store,           \* Point rows by point id
    lastOp           \* the store operation that ran last

storeVars == <<store, lastOp>>

\* one pass of poll_and_publish over the due points, and the MQTT session
VARIABLES
    duePoints,       \* the due points of get_enabled_points(): has a topic / its
                     \* address and object type can be parsed
    ppc,             \* "idle" = between passes, "polling" = inside the for loop
    pidx,            \* points of this pass already walked
    mqttConnected,   \* MQTTClient.connected
    errorCount,      \* Point.errorCount by point
    pev              \* the observable effect of the last step

pollVars == <<duePoints, ppc, pidx, mqttConnected, errorCount, pev>>

\* one property value on its way from the BACnet response to the MQTT payload
VARIABLES
    raw,             \* response.propertyValue
    decoded,         \* what _extract_value returned
    published_value, \* the "value" of the published payload
    dpc              \* "raw" | "decoded" | "published" | "dropped"

decodeVars == <<raw, decoded, published_value, dpc>>

\* one call of BACnetClient.read_property or write_property
VARIABLES
    call,            \* "read" | "write"
    app,             \* self.app is set
    attempt,         \* the loop variable of read_property
    log,             \* how each request sent by the call ended, in order
    rpc,             \* "request" | "backoff" (in sleep(0.5)) | "done"
    result           \* what the call returned ("pending" before it returns)

retryVars == <<call, app, attempt, log, rpc, result>>

\* PollingWorker.run as a whole: the MQTT session and its status in the
\* store, the restart flag, the override queue, one due point, cancellation
VARIABLES
    lpc,              \* "start" | "top" | "drain" | "poll" | "sleep" | "stopped"
    broker,           \* the broker accepts connections
    connected,        \* MQTTClient.connected
    ever_connected,   \* _on_connect has run with rc = 0 since the worker started
    mqtt_open,        \* a paho client with a started network loop exists
    bacnet_app,       \* BACnetClient.app is set (the UDP endpoint is open)
    connectionStatus, \* MqttConfig.connectionStatus in the store
    restart_file,     \* RESTART_FLAG_FILE exists
    overrides,        \* self.pending_overrides, each entry by its arrival number
    arrived,          \* override messages queued so far
    written,          \* arrival numbers handed to write_property, in order
    tick_mark,        \* arrived, as it was when the current iteration began
    tick_queued,      \* Len(overrides), as it was when the current iteration began
    lev               \* the observable effect of the last step

loopVars == <<lpc, broker, connected, ever_connected, mqtt_open, bacnet_app,
              connectionStatus, restart_file, overrides, arrived, written,
              tick_mark, tick_queued, lev>>

\* One UI session's discovery handler and the Cancel button
VARIABLES
    is_scanning,      \* DiscoveryState.is_scanning
    current_job_id,   \* DiscoveryState.current_job_id: <<>> is None
    job_status,       \* DiscoveryJob.status by job id; "none": no such row
    lock_exists,      \* DISCOVERY_LOCK_FILE exists
    hpc,              \* start_discovery: "idle" | "create" | "call" | "run" | "finish"
    run_job,          \* the job_id argument of the run in progress (0: none)
    cancelled,        \* the jobs cancel_discovery has acted on
    cev               \* the last step: "none" | "cancelled" | "ignored" | "other"

cancelVars == <<is_scanning, current_job_id, job_status, lock_exists, hpc,
                run_job, cancelled, cev>>

\* MQTTClient objects, their subscriptions, and the worker's reload of them
VARIABLES
    clients,           \* by object: clientId, subscribe_topics (a list), whether
                       \* a paho network loop runs, connected, and the topics
                       \* subscribed at the broker in the current session
    mqtt_client,       \* PollingWorker.mqtt_client: the object in use
    n_clients,         \* MQTTClient objects created so far
    subscribe_enabled, \* PollingWorker.subscribe_enabled
    cfg,               \* the MqttConfig row: clientId, subscribeEnabled
    flag_file,         \* RESTART_FLAG_FILE exists
    map_stale,         \* a Point changed since topic_to_point was built
    delivered,         \* callback invocations caused by the last inbound message
    mev                \* the last step

mqttVars == <<clients, mqtt_client, n_clients, subscribe_enabled, cfg, flag_file,
              map_stale, delivered, mev>>

\* One discovery scan: the I-Am handlers, the response window, save_results
VARIABLES
    found_devices,    \* DiscoveryApp.found_devices: device ids, one per I-Am
    objects_read,     \* per I-Am handler: objects whose properties it has read
    all_points,       \* DiscoveryApp.all_points: <<device, object>> per object read
    spc,              \* "window" | "saving" | "done"
    sidx,             \* save_results: index of the next entry of devices
    db_devices,       \* committed Device rows, by deviceId
    db_points,        \* committed Point rows, <<device, object>>
    session_devices,  \* Device rows as save_results' session sees them
    session_points,   \* Point rows as save_results' session sees them
    devices_saved,    \* save_results' counters
    points_saved,
    scan_status,      \* the DiscoveryJob row: status, devicesFound, pointsFound
    prior             \* the rows the store held when the scan began

scanVars == <<found_devices, objects_read, all_points, spc, sidx, db_devices,
              db_points, session_devices, session_points, devices_saved,
              points_saved, scan_status, prior>>

vars == <<coordVars, writeVars, cadenceVars, storeVars, pollVars, decodeVars,
          retryVars, loopVars, cancelVars, mqttVars, scanVars>>

\* what the steps of one part of the program leave alone
nonCoordVars == <<writeVars, cadenceVars, storeVars, pollVars, decodeVars, retryVars, loopVars, cancelVars, mqttVars, scanVars>>
nonWriteVars == <<coordVars, cadenceVars, storeVars, pollVars, decodeVars, retryVars, loopVars, cancelVars, mqttVars, scanVars>>
nonCadenceVars == <<coordVars, writeVars, storeVars, pollVars, decodeVars, retryVars, loopVars, cancelVars, mqttVars, scanVars>>
nonStoreVars == <<coordVars, writeVars, cadenceVars, pollVars, decodeVars, retryVars, loopVars, cancelVars, mqttVars, scanVars>>
nonPollVars == <<coordVars, writeVars, cadenceVars, storeVars, decodeVars, retryVars, loopVars, cancelVars, mqttVars, scanVars>>
nonDecodeVars == <<coordVars, writeVars, cadenceVars, storeVars, pollVars, retryVars, loopVars, cancelVars, mqttVars, scanVars>>
nonRetryVars == <<coordVars, writeVars, cadenceVars, storeVars, pollVars, decodeVars, loopVars, cancelVars, mqttVars, scanVars>>
nonLoopVars == <<coordVars, writeVars, cadenceVars, storeVars, pollVars, decodeVars, retryVars, cancelVars, mqttVars, scanVars>>
nonCancelVars == <<coordVars, writeVars, cadenceVars, storeVars, pollVars, decodeVars, retryVars, loopVars, mqttVars, scanVars>>
nonMqttVars == <<coordVars, writeVars, cadenceVars, storeVars, pollVars, decodeVars, retryVars, loopVars, cancelVars, scanVars>>
nonScanVars == <<coordVars, writeVars, cadenceVars, storeVars, pollVars, decodeVars, retryVars, loopVars, cancelVars, mqttVars>>

\* ------------------------------------------------------------ helpers

\* is_port_in_use: the bind test fails while an endpoint holds the port
DiscoveryHoldsPort == leaked \/ \E s \in Sessions : dapp[s]

WorkerHoldsPort == client = "bound"

is_port_in_use == WorkerHoldsPort \/ DiscoveryHoldsPort

JobsCreated == Cardinality({j \in JobIds : job[j] # "none"})

\* BACnetClient.initialize: True (app set) or False (exception, app stays None)
InitializeOutcomes == {"bound", "unbound"}

\* ------------------------------------------------------------- worker

\* run, lines 429-458: first initialize(); a failure ends the worker
WorkerStartup ==
    /\ wpc = "init"
    /\ \E r \in InitializeOutcomes :
         IF r = "bound"
         THEN client' = "bound" /\ wpc' = "sleep"
         ELSE client' = "unbound" /\ wpc' = "stopped"
    /\ ev' = "other"
    /\ UNCHANGED <<lockFile, tickLock, pollIdx, discoveryVars>>
    /\ UNCHANGED nonCoordVars

\* WorkerLoopTop with the lock check lost: the iteration polls although the
\* lock file exists
WorkerLoopTopIgnoresLock ==
    /\ wpc = "sleep"
    /\ tickLock' = lockFile
    /\ wpc' = "poll"
    /\ pollIdx' = 0
    /\ ev' = "other"
    /\ UNCHANGED <<lockFile, client, discoveryVars>>
    /\ UNCHANGED nonCoordVars

\* run, lines 461-479 and 507-513: top of an iteration after the 1 s sleep.
\* With the lock present the client is closed and dropped and the worker waits.
WorkerLoopTop ==
    /\ wpc = "sleep"
    /\ tickLock' = lockFile
    /\ IF lockFile
       THEN client' = "None" /\ wpc' = "paused"
       ELSE client' = client /\ wpc' = "poll"
    /\ pollIdx' = 0
    /\ ev' = "other"
    /\ UNCHANGED <<lockFile, discoveryVars>>
    /\ UNCHANGED nonCoordVars

\* run, lines 469-479: the wait loop wakes, finds the lock gone, builds a new
\* client, ignores what initialize() returns and continues with the next
\* iteration, whose lock check runs before any await.
WorkerResume ==
    /\ wpc = "paused"
    /\ ~lockFile
    /\ \E r \in InitializeOutcomes : client' = r
    /\ tickLock' = FALSE
    /\ wpc' = "poll"
    /\ pollIdx' = 0
    /\ ev' = "other"
    /\ UNCHANGED <<lockFile, discoveryVars>>
    /\ UNCHANGED nonCoordVars

\* poll_and_publish, lines 343-373: the walk reaches the next due point and
\* awaits read_property, which sends a ReadProperty only when app is set.
WorkerPollRead ==
    /\ wpc = "poll"
    /\ \E j \in (pollIdx + 1)..NPollPoints : pollIdx' = j
    /\ ev' = IF client = "bound" THEN "read" ELSE "other"
    /\ UNCHANGED <<lockFile, wpc, client, tickLock, discoveryVars>>
    /\ UNCHANGED nonCoordVars

\* poll_and_publish returns (no further point is due); run sleeps 1 s
WorkerPollEnd ==
    /\ wpc = "poll"
    /\ wpc' = "sleep"
    /\ ev' = "other"
    /\ UNCHANGED <<lockFile, client, tickLock, pollIdx, discoveryVars>>
    /\ UNCHANGED nonCoordVars

\* ---------------------------------------------------------- discovery

\* start_discovery, lines 125-138
StartDiscovery(s) ==
    /\ upc[s] = "idle"
    /\ upc' = [upc EXCEPT ![s] = "starting"]
    /\ ev' = "other"
    /\ UNCHANGED <<lockFile, workerVars, waitI, curJob, job, dapp, leaked>>
    /\ UNCHANGED nonCoordVars

\* start_discovery, lines 140-159: the DiscoveryJob row, status "running"
CreateJob(s) ==
    /\ upc[s] = "starting"
    /\ JobsCreated < MaxJobs
    /\ LET j == JobsCreated + 1 IN
         /\ job' = [job EXCEPT ![j] = "running"]
         /\ curJob' = [curJob EXCEPT ![s] = j]
    /\ upc' = [upc EXCEPT ![s] = "created"]
    /\ ev' = "other"
    /\ UNCHANGED <<lockFile, workerVars, waitI, dapp, leaked>>
    /\ UNCHANGED nonCoordVars

\* RunFailed without the finally clause: a failed run leaves the lock file
RunFailedKeepsLock(s, stored) ==
    /\ job' = [job EXCEPT ![curJob[s]] = IF stored THEN "error" ELSE @]
    /\ lockFile' = TRUE
    /\ leaked' = (leaked \/ dapp[s])
    /\ dapp' = [dapp EXCEPT ![s] = FALSE]
    /\ upc' = [upc EXCEPT ![s] = "reload"]
    /\ waitI' = [waitI EXCEPT ![s] = 0]
    /\ ev' = "endError"

\* run_discovery_async, lines 215-232: the except clause marks the job
\* "error" (when the store accepts the update), the finally clause removes
\* the lock file, and the run ends.  app.close() is not on this path: an
\* endpoint the run had opened stays open.
RunFailed(s, stored) ==
    /\ job' = [job EXCEPT ![curJob[s]] = IF stored THEN "error" ELSE @]
    /\ lockFile' = FALSE
    /\ leaked' = (leaked \/ dapp[s])
    /\ dapp' = [dapp EXCEPT ![s] = FALSE]
    /\ upc' = [upc EXCEPT ![s] = "reload"]
    /\ waitI' = [waitI EXCEPT ![s] = 0]
    /\ ev' = "endError"

\* run_discovery_async, lines 189-191: DiscoveryApp(local_addr, ...) either
\* opens the endpoint or raises
CreateApp(s) ==
    \/ /\ dapp' = [dapp EXCEPT ![s] = TRUE]
       /\ lockFile' = TRUE
       /\ upc' = [upc EXCEPT ![s] = "whois"]
       /\ waitI' = [waitI EXCEPT ![s] = 0]
       /\ ev' = "other"
       /\ UNCHANGED <<job, leaked>>
    \/ \E stored \in BOOLEAN : RunFailed(s, stored)

\* run_discovery_async, lines 174-191: touch the lock, then the first pass
\* of the port-wait loop, all before the first await
RunBegin(s) ==
    /\ upc[s] = "created"
    /\ IF is_port_in_use
       THEN /\ lockFile' = TRUE
            /\ upc' = [upc EXCEPT ![s] = "portwait"]
            /\ waitI' = [waitI EXCEPT ![s] = 1]
            /\ ev' = "other"
            /\ UNCHANGED <<job, dapp, leaked>>
       ELSE CreateApp(s)
    /\ UNCHANGED <<workerVars, curJob>>
    /\ UNCHANGED nonCoordVars

\* run_discovery_async, lines 181-187: the loop wakes from sleep(1)
PortWait(s) ==
    /\ upc[s] = "portwait"
    /\ IF waitI[s] = max_wait
       THEN \E stored \in BOOLEAN : RunFailed(s, stored)
       ELSE IF is_port_in_use
            THEN /\ waitI' = [waitI EXCEPT ![s] = @ + 1]
                 /\ ev' = "other"
                 /\ UNCHANGED <<lockFile, upc, job, dapp, leaked>>
            ELSE CreateApp(s)
    /\ UNCHANGED <<workerVars, curJob>>
    /\ UNCHANGED nonCoordVars

\* run_discovery_async, lines 199-205: the Who-Is request returns or raises
WhoIs(s) ==
    /\ upc[s] = "whois"
    /\ \/ /\ upc' = [upc EXCEPT ![s] = "collect"]
          /\ ev' = "other"
          /\ UNCHANGED <<lockFile, job, dapp, leaked, waitI>>
       \/ \E stored \in BOOLEAN : RunFailed(s, stored)
    /\ UNCHANGED <<workerVars, curJob>>
    /\ UNCHANGED nonCoordVars

\* run_discovery_async, lines 207-232: after the response window save_results
\* either commits (job "complete"), the endpoint is closed and the finally
\* clause removes the lock, or it raises and the except/finally clauses run.
Collect(s) ==
    /\ upc[s] = "collect"
    /\ \/ /\ job' = [job EXCEPT ![curJob[s]] = "complete"]
          /\ dapp' = [dapp EXCEPT ![s] = FALSE]
          /\ lockFile' = FALSE
          /\ upc' = [upc EXCEPT ![s] = "reload"]
          /\ ev' = "endOk"
          /\ UNCHANGED <<leaked, waitI>>
       \/ \E stored \in BOOLEAN : RunFailed(s, stored)
    /\ UNCHANGED <<workerVars, curJob>>
    /\ UNCHANGED nonCoordVars

\* start_discovery, lines 172-209: reload and the finally clause
FinishDiscovery(s) ==
    /\ upc[s] = "reload"
    /\ upc' = [upc EXCEPT ![s] = "idle"]
    /\ curJob' = [curJob EXCEPT ![s] = 0]
    /\ ev' = "other"
    /\ UNCHANGED <<lockFile, workerVars, waitI, job, dapp, leaked>>
    /\ UNCHANGED nonCoordVars

\* ---------------------------------------------- points, names and topics

\* A tag value is the sequence of its dot-free segments; <<>> is None or "".
NoTag == <<>>

\* siteId, equipmentType, equipmentId, pointFunction, quantity, subject,
\* location, qualifier
TagSets ==
    { <<NoTag, NoTag, NoTag, NoTag, NoTag, NoTag, NoTag, NoTag>>,
      <<<<"klcc">>, <<"ahu">>, <<"12">>, <<"sp">>, <<"temp">>, <<"air">>,
        <<"supply">>, NoTag>>,
      <<<<"klcc">>, <<"ahu">>, <<"12">>, <<"sensor">>, <<"temp">>, <<"air">>,
        <<"supply">>, NoTag>> }

\* Point.objectInstance of the one point, as it is printed into the topic
objectInstance == "435"

\* minPresValue / maxPresValue as <<bound>>; <<>> is None
RangeSets == { [minPresValue |-> <<>>, maxPresValue |-> <<>>],
               [minPresValue |-> <<15>>, maxPresValue |-> <<30>>] }

\* values carried by override messages and write commands
Values == {22, 40}

RECURSIVE JoinParts(_)
JoinParts(ts) == IF ts = <<>> THEN <<>> ELSE Head(ts) \o JoinParts(Tail(ts))

\* Point.generate_haystack_name: the non-empty tags joined by "."; the result
\* is held as the sequence str.split('.') gives back, <<>> is None
generate_haystack_name(tags) == JoinParts(tags)

\* Point.generate_mqtt_topic: name.replace('.', '/') + "/" + objectInstance,
\* held as its "/"-separated levels; <<>> is None
generate_mqtt_topic(tags) ==
    LET name == generate_haystack_name(tags) IN
      IF name # <<>> THEN Append(name, objectInstance) ELSE <<>>

\* build_topic_to_point_map, lines 196-211: f"{OVERRIDE_PREFIX}/{mqtt_topic}"
override_topic(mqtt_topic) == <<"override">> \o mqtt_topic

\* PointsState._save_point_sync, lines 616-656
SavedPoint(tags, publish, writable, range) ==
    [ tags |-> tags,
      haystackPointName |-> generate_haystack_name(tags),
      mqttTopic |-> generate_mqtt_topic(tags),
      mqttPublish |-> publish,
      isWritable |-> writable,
      minPresValue |-> range.minPresValue,
      maxPresValue |-> range.maxPresValue ]

Points == { SavedPoint(tags, publish, writable, range) :
              tags \in TagSets, publish \in BOOLEAN, writable \in BOOLEAN,
              range \in RangeSets }

\* get_enabled_points + build_topic_to_point_map: the map holds the point's
\* dict under its override topic when the point is published and has a topic
build_topic_to_point_map ==
    IF point.mqttPublish /\ point.mqttTopic # <<>>
    THEN { [ topic |-> override_topic(point.mqttTopic),
             isWritable |-> point.isWritable ] }
    ELSE {}

\* WriteHandler.execute_command, lines 98-106
sp_ok(name) == ~(Len(name) >= 4 /\ name[4] # "sp")

\* WriteHandler.execute_command, lines 124-139
in_range(v, p) ==
    /\ p.minPresValue = <<>> \/ v >= p.minPresValue[1]
    /\ p.maxPresValue = <<>> \/ v <= p.maxPresValue[1]

\* the effect of a step: kind "dropped" (a message was discarded unjudged),
\* "rejected" (validation refused the attempt), "write" (a WriteProperty was
\* sent), with the WriteHistory rows added, the result envelopes produced and
\* the codes of the result's validationErrors
Effect(kind, src, value, rows, results) ==
    [kind |-> kind, src |-> src, value |-> value, rows |-> rows,
     results |-> results, errors |-> <<>>]

Quiet == Effect("other", "none", 0, 0, 0)

NoProbe == [fate |-> "none", pos |-> 0, ticks |-> 0]

\* ------------------------------------------- overrides and write commands
\* The override subscription is enabled (MqttConfig.subscribeEnabled) and no
\* discovery runs: self.bacnet_client is set and its app is open throughout.

OverrideTopics ==
    { override_topic(generate_mqtt_topic(tags)) :
        tags \in { ts \in TagSets : generate_haystack_name(ts) # <<>> } }

\* override payloads, all of them text that json.loads accepts: a JSON object
\* with or without "value", or a bare JSON number
Payloads ==
    { [json |-> "object", value |-> <<v>>] : v \in Values }
      \cup { [json |-> "object", value |-> <<>>] }
      \cup { [json |-> "number", value |-> <<>>] }

\* write commands: deviceId/objectType/objectInstance naming the point, naming
\* no point of the store, or absent
Priorities == {8, 17}

Commands ==
    [target : {"point"}, value : Values, priority : Priorities]
      \cup [target : {"unknown", "none"}, value : {22}, priority : {8}]

\* run, lines 429-458: subscriptions, callback, connect, build_topic_to_point_map
run_start ==
    /\ xpc = "init"
    /\ topic_to_point' = build_topic_to_point_map
    /\ xpc' = "sleep"
    /\ wev' = Quiet
    /\ UNCHANGED <<point, restartFlag, pending_overrides, pending_commands, probe,
                   nonWriteVars>>

\* run, lines 461-505: an iteration begins; with the restart flag present the
\* flag is removed and the topic map rebuilt from the store
run_iteration ==
    /\ xpc = "sleep"
    /\ restartFlag' = FALSE
    /\ topic_to_point' = IF restartFlag THEN build_topic_to_point_map
                         ELSE topic_to_point
    /\ probe' = IF probe.fate \in {"lost", "queued"} /\ probe.ticks < 2
                THEN [probe EXCEPT !.ticks = @ + 1] ELSE probe
    /\ xpc' = "overrides"
    /\ wev' = Quiet
    /\ UNCHANGED <<point, pending_overrides, pending_commands,
                   nonWriteVars>>

\* process_pending_overrides, lines 288-320: pop(0) and write_property; no
\* validation, no WriteHistory row, nothing published
process_pending_overrides ==
    /\ xpc = "overrides"
    /\ pending_overrides # <<>>
    /\ pending_overrides' = Tail(pending_overrides)
    /\ probe' = IF probe.fate # "queued" THEN probe
                ELSE IF probe.pos = 1 THEN [probe EXCEPT !.fate = "written", !.pos = 0]
                ELSE [probe EXCEPT !.pos = @ - 1]
    /\ wev' = Effect("write", "override", Head(pending_overrides), 0, 0)
    /\ UNCHANGED <<point, restartFlag, topic_to_point, pending_commands, xpc,
                   nonWriteVars>>

\* run, lines 510-518: the queue is empty; poll_and_publish, then sleep(1)
run_iteration_end ==
    /\ xpc = "overrides"
    /\ pending_overrides = <<>>
    /\ xpc' = "sleep"
    /\ wev' = Quiet
    /\ UNCHANGED <<point, restartFlag, topic_to_point, pending_overrides,
                   pending_commands, probe, nonWriteVars>>

\* handle_mqtt_message -> _handle_override_message, lines 236-286, on the MQTT
\* network thread.  The point is looked up in the cached map and only its
\* cached isWritable is tested; a bare JSON number has no .get and the
\* AttributeError is swallowed by handle_mqtt_message.
_handle_override_message(topic, payload) ==
    LET entry == { e \in topic_to_point : e.topic = topic }
        writable == \A e \in entry : e.isWritable
        accepted == /\ entry # {}
                    /\ writable
                    /\ payload.json = "object"
                    /\ payload.value # <<>>
        routable == /\ point.mqttTopic # <<>>
                    /\ topic = override_topic(point.mqttTopic)
                    /\ point.mqttPublish
                    /\ point.isWritable
                    /\ sp_ok(point.haystackPointName)
                    /\ payload.json = "object"
                    /\ payload.value # <<>>
                    /\ in_range(payload.value[1], point)
    IN
    /\ xpc # "init"
    /\ accepted => Len(pending_overrides) < MaxQueue
    /\ pending_overrides' = IF accepted
                            THEN Append(pending_overrides, payload.value[1])
                            ELSE pending_overrides
    /\ probe' = IF probe.fate = "none" /\ routable
                THEN IF accepted
                     THEN [fate |-> "queued", pos |-> Len(pending_overrides) + 1,
                           ticks |-> 0]
                     ELSE [fate |-> "lost", pos |-> 0, ticks |-> 0]
                ELSE probe
    /\ wev' = IF accepted THEN Quiet
              ELSE IF entry # {} /\ ~writable
                   THEN Effect("rejected", "override", 0, 0, 0)
                   ELSE Effect("dropped", "override", 0, 0, 0)
    /\ UNCHANGED <<point, restartFlag, topic_to_point, pending_commands, xpc,
                   nonWriteVars>>

\* handle_mqtt_message -> _handle_write_command, lines 231-234: the payload is
\* not read; the handler logs one line
_handle_write_command ==
    /\ xpc # "init"
    /\ wev' = Effect("dropped", "command", 0, 0, 0)
    /\ UNCHANGED <<point, restartFlag, topic_to_point, pending_overrides,
                   pending_commands, xpc, probe, nonWriteVars>>

\* PointsState.save_point -> _save_point_sync
save_point(tags, publish, writable, range) ==
    /\ point' = SavedPoint(tags, publish, writable, range)
    /\ wev' = Quiet
    /\ UNCHANGED <<restartFlag, topic_to_point, pending_overrides,
                   pending_commands, xpc, probe, nonWriteVars>>

\* WorkerState.restart_worker, lines 102-108
restart_worker ==
    /\ restartFlag' = TRUE
    /\ wev' = Quiet
    /\ UNCHANGED <<point, topic_to_point, pending_overrides, pending_commands,
                   xpc, probe, nonWriteVars>>

\* WriteHandler.queue_command
queue_command(command) ==
    /\ Len(pending_commands) < MaxCmdQueue
    /\ pending_commands' = Append(pending_commands, command)
    /\ wev' = Quiet
    /\ UNCHANGED <<point, restartFlag, topic_to_point, pending_overrides, xpc,
                   probe, nonWriteVars>>

\* one entry of validation_errors, appended when its check fails
Failing(failed, code) == IF failed THEN <<code>> ELSE <<>>

\* WriteHandler.execute_command, lines 66-145: the codes of validation_errors
\* when the checks are done.  The first two checks return at once; the
\* others append and go on.
validation_errors(command, p) ==
    IF command.target = "none" THEN <<"MISSING_FIELDS">>
    ELSE IF command.target = "unknown" THEN <<"POINT_NOT_FOUND">>
    ELSE Failing(~sp_ok(p.haystackPointName), "INVALID_POINT_FUNCTION")
           \o Failing(~p.isWritable, "POINT_NOT_WRITABLE")
           \o Failing(~(1 <= command.priority /\ command.priority <= 16),
                      "INVALID_PRIORITY")
           \o Failing(p.minPresValue # <<>> /\ command.value < p.minPresValue[1],
                      "VALUE_BELOW_MINIMUM")
           \o Failing(p.maxPresValue # <<>> /\ command.value > p.maxPresValue[1],
                      "VALUE_ABOVE_MAXIMUM")

\* WriteHandler.process_pending -> execute_command, lines 44-47 and 51-191:
\* every return before the BACnet write hands back an error result and adds
\* no WriteHistory row; the row is added after write_property
execute_command ==
    /\ pending_commands # <<>>
    /\ pending_commands' = Tail(pending_commands)
    /\ LET command == Head(pending_commands)
           errors == validation_errors(command, point) IN
         wev' = IF errors # <<>>
                THEN [Effect("rejected", "command", 0, 0, 1) EXCEPT !.errors = errors]
                ELSE Effect("write", "command", command.value, 1, 1)
    /\ UNCHANGED <<point, restartFlag, topic_to_point, pending_overrides, xpc,
                   probe, nonWriteVars>>

\* ------------------------------------------------------------ cadence

PollIntervals == {1, 20, 45, 60, 90}

\* poll_and_publish, line 333, with math.floor in the place of math.ceil
next_minute_floor(t) == (t \div SecondsPerMinute) * SecondsPerMinute

\* poll_and_publish, line 333: math.ceil(current_time / 60) * 60 for a
\* current_time that is not a whole number of seconds
next_minute(t) == ((t \div SecondsPerMinute) + 1) * SecondsPerMinute

\* poll_and_publish, lines 360-361
aligned(t, p) == ((t % SecondsPerMinute) % p) < AlignWindow

\* poll_and_publish, line 379, storing current_time itself
aligned_time_unfloored(t, p) == t

\* poll_and_publish, line 379: math.floor(current_time / poll_interval) * poll_interval
aligned_time(t, p) == (t \div p) * p

\* poll_and_publish, lines 343-404, for the one enabled point
poll_and_publish ==
    /\ cpc = "poll"
    /\ cpc' = "sleep"
    /\ IF point_last_poll = <<>>
       THEN /\ point_last_poll' = <<next_minute(now) - pollInterval>>
            /\ UNCHANGED <<prevRead, gap, failedSince>>
       ELSE IF now - point_last_poll[1] < pollInterval \/ ~aligned(now, pollInterval)
            THEN UNCHANGED <<point_last_poll, prevRead, gap, failedSince>>
            ELSE \E value_ok \in BOOLEAN :
                   IF value_ok
                   THEN /\ point_last_poll' = <<aligned_time(now, pollInterval)>>
                        /\ gap' = IF prevRead >= 0 /\ ~failedSince
                                  THEN now - prevRead ELSE 0
                        /\ prevRead' = now
                        /\ failedSince' = FALSE
                   ELSE /\ failedSince' = TRUE
                        /\ UNCHANGED <<point_last_poll, prevRead, gap>>
    /\ UNCHANGED <<now, pollInterval, nonCadenceVars>>

\* run, line 521: await asyncio.sleep(1); the next pass starts 1..MaxSleep
\* whole seconds after this one
run_sleep ==
    /\ cpc = "sleep"
    /\ \E d \in 1..MaxSleep :
         /\ now + d <= MaxTime
         /\ now' = now + d
    /\ cpc' = "poll"
    /\ UNCHANGED <<pollInterval, point_last_poll, prevRead, gap, failedSince,
                   nonCadenceVars>>

\* -------------------------------------------------- the store of points

PointIds == 1..NPoints

\* What a discovery finds: two objects per device, analog-input,n and
\* analog-value,n on device n.  (deviceId, objectType, objectInstance) is
\* the unique key of a Point.
key_deviceId(p) == ((p - 1) \div 2) + 1

key_objectType(p) == IF p % 2 = 1 THEN "analog-input" ELSE "analog-value"

key_objectInstance(p) == <<"1", "2", "3", "4">>[((p - 1) \div 2) + 1]

Devices == { key_deviceId(p) : p \in PointIds }

Untagged == <<NoTag, NoTag, NoTag, NoTag, NoTag, NoTag, NoTag, NoTag>>

\* tag sets the editor can save: those of TagSets, one whose siteId is
\* "klcc.t1", one without siteId
StoreTagSets ==
    TagSets \cup
    { <<<<"klcc", "t1">>, <<"ahu">>, <<"12">>, <<"sp">>, <<"temp">>, NoTag, NoTag,
        NoTag>>,
      <<NoTag, <<"ahu">>, <<"12">>, <<"sensor">>, <<"temp">>, NoTag, NoTag,
        NoTag>> }

\* Point.generate_mqtt_topic for a Point with the given objectInstance
point_mqtt_topic(tags, instance) ==
    LET name == generate_haystack_name(tags) IN
      IF name # <<>> THEN Append(name, instance) ELSE <<>>

\* save_results, lines 318-333: a Point as discovery inserts it
new_point(p) ==
    [ deviceId |-> key_deviceId(p),
      objectType |-> key_objectType(p),
      objectInstance |-> key_objectInstance(p),
      tags |-> Untagged,
      haystackPointName |-> <<>>,
      mqttTopic |-> <<>>,
      mqttPublish |-> FALSE ]

\* regenerated with the call of generate_mqtt_topic lost
regenerated_name_only(pt, tags) ==
    [pt EXCEPT !.tags = tags,
               !.haystackPointName = generate_haystack_name(tags)]

\* _save_point_sync / _apply_bulk_config_sync: the two generate_ calls that
\* follow the assignment of the tags
regenerated(pt, tags) ==
    [pt EXCEPT !.tags = tags,
               !.haystackPointName = generate_haystack_name(tags),
               !.mqttTopic = point_mqtt_topic(tags, pt.objectInstance)]

\* PointsState._save_point_sync, lines 616-656, for point p
_save_point_sync(p, tags, publish) ==
    /\ store' = [store EXCEPT ![p] =
                   [regenerated(store[p], tags) EXCEPT !.mqttPublish = publish]]
    /\ lastOp' = "save_point"
    /\ UNCHANGED nonStoreVars

\* PointsState._toggle_mqtt_sync, lines 680-688
_toggle_mqtt_sync(p, enabled) ==
    /\ store' = [store EXCEPT ![p].mqttPublish = enabled]
    /\ lastOp' = "toggle_mqtt_publish"
    /\ UNCHANGED nonStoreVars

\* PointsState._bulk_enable_mqtt_sync, lines 699-708
_bulk_enable_mqtt_sync(point_ids) ==
    /\ store' = [p \in PointIds |->
                   IF p \in point_ids THEN [store[p] EXCEPT !.mqttPublish = TRUE]
                   ELSE store[p]]
    /\ lastOp' = "bulk_enable_mqtt"
    /\ UNCHANGED nonStoreVars

\* PointsState._bulk_disable_mqtt_sync, lines 726-735
_bulk_disable_mqtt_sync(point_ids) ==
    /\ store' = [p \in PointIds |->
                   IF p \in point_ids THEN [store[p] EXCEPT !.mqttPublish = FALSE]
                   ELSE store[p]]
    /\ lastOp' = "bulk_disable_mqtt"
    /\ UNCHANGED nonStoreVars

\* site ids and per-device equipment the bulk form can carry
BulkSites == { <<"klcc">>, <<"klcc", "t1">> }

BulkEquipment == { [equipmentType |-> NoTag, equipmentId |-> NoTag],
                   [equipmentType |-> <<"ahu">>, equipmentId |-> <<"12">>] }

\* PointsState._apply_bulk_config_sync, lines 754-785: every point gets the
\* site id and, where the form names them, its device's equipment tags
_apply_bulk_config_sync(bulk_site_id, device_config) ==
    /\ store' = [p \in PointIds |->
         LET pt == store[p]
             conf == device_config[pt.deviceId]
             tags == [pt.tags EXCEPT
                        ![1] = bulk_site_id,
                        ![2] = IF conf.equipmentType # NoTag
                               THEN conf.equipmentType ELSE @,
                        ![3] = IF conf.equipmentId # NoTag
                               THEN conf.equipmentId ELSE @]
         IN regenerated(pt, tags)]
    /\ lastOp' = "apply_bulk_config"
    /\ UNCHANGED nonStoreVars

\* save_results, lines 234-347: every Device row is deleted (its Points go
\* with it) and the discovered objects are inserted anew
save_results ==
    /\ store' = [p \in PointIds |-> new_point(p)]
    /\ lastOp' = "save_results"
    /\ UNCHANGED nonStoreVars

\* get_enabled_points, lines 147-180 (every Device enabled)
pollable(pt) == pt.mqttPublish

\* build_topic_to_point_map, lines 196-211, on the present store: the keys
\* of the dict it builds
override_map_keys ==
    { override_topic(store[p].mqttTopic) :
        p \in { q \in PointIds : pollable(store[q]) /\ store[q].mqttTopic # <<>> } }

\* ------------------------------------------------- reading and publishing

DuePointIds == 1..NPollPoints

\* what read_property hands back: a clean value, a string that holds
\* "bacpypes3" or "object at", or None after the last retry
ReadOutcomes == {"value", "leak", "None"}

PollEffect(kind, pid, outcome, published, envelopes) ==
    [kind |-> kind, pid |-> pid, outcome |-> outcome, published |-> published,
     envelopes |-> envelopes]

PollQuiet == PollEffect("other", 0, "none", 0, 0)

\* run, lines 507-510, then poll_and_publish up to its for loop: a pass
\* begins; a lost MQTT session is reconnected when the broker answers
poll_pass_begin ==
    /\ ppc = "idle"
    /\ ppc' = "polling"
    /\ pidx' = 0
    /\ \E reconnected \in BOOLEAN :
         mqttConnected' = (mqttConnected \/ reconnected)
    /\ pev' = PollQuiet
    /\ UNCHANGED <<duePoints, errorCount, nonPollVars>>

\* poll_and_publish, lines 367-402, for the next due point.  read_property
\* builds Address and ObjectIdentifier before its try block (bacnet_client.py
\* lines 93-95): what they raise leaves poll_and_publish and ends the pass in
\* run's except clause.  A value is published when the point has a topic and
\* the MQTT session is up; a failed read only counts failed_reads.
poll_point ==
    /\ ppc = "polling"
    /\ pidx < NPollPoints
    /\ LET p == pidx + 1 IN
         IF ~duePoints[p].parsable
         THEN /\ ppc' = "idle"
              /\ pidx' = 0
              /\ pev' = PollEffect("aborted", p, "raised", 0, 0)
         ELSE /\ ppc' = ppc
              /\ pidx' = p
              /\ \E outcome \in ReadOutcomes :
                   pev' = PollEffect("read", p, outcome,
                            IF outcome = "value" /\ duePoints[p].hasTopic
                               /\ mqttConnected
                            THEN 1 ELSE 0,
                            0)
    /\ UNCHANGED <<duePoints, mqttConnected, errorCount, nonPollVars>>

\* poll_and_publish returns, run sleeps
poll_pass_end ==
    /\ ppc = "polling"
    /\ pidx = NPollPoints
    /\ ppc' = "idle"
    /\ pidx' = 0
    /\ pev' = PollQuiet
    /\ UNCHANGED <<duePoints, mqttConnected, errorCount, nonPollVars>>

\* MQTTClient._on_disconnect
_on_disconnect ==
    /\ mqttConnected
    /\ mqttConnected' = FALSE
    /\ pev' = PollQuiet
    /\ UNCHANGED <<duePoints, ppc, pidx, errorCount, nonPollVars>>

\* ------------------------------------------------------ value decoding
\* A string is known by what the code asks of it: whether it holds
\* "bacpypes3" (b), whether it holds "object at" (o), whether int()/float()
\* parse it, whether it has 100 characters or more, and whether it holds
\* "acpypes3" after a character that json.dumps writes as an escape ending
\* in "b" (e): backspace as \b, U+000B as \u000b, U+00EB as \u00eb.

Texts ==
    { s \in [b : BOOLEAN, o : BOOLEAN, e : BOOLEAN, numeric : BOOLEAN, long : BOOLEAN] :
        s.numeric => (~s.b /\ ~s.o /\ ~s.e /\ ~s.long) }

PlainText == [b |-> FALSE, o |-> FALSE, e |-> FALSE, numeric |-> FALSE, long |-> FALSE]

\* Python values: a number, a bool, a str, None, or an object of another type
Number == [type |-> "number", text |-> PlainText]

Boolean == [type |-> "bool", text |-> PlainText]

Str(s) == [type |-> "str", text |-> s]

None == [type |-> "None", text |-> PlainText]

OtherObject == [type |-> "other", text |-> PlainText]

\* the first tag with data of a tagList: none, an application tag the
\* decoder knows, one it does not know, one without data, or one whose bytes
\* make struct.unpack / decode raise
PlainTag(kind) == [kind |-> kind, text |-> PlainText]

Tags ==
    { PlainTag(k) : k \in {"none", "bool", "unsigned", "integer", "real", "double",
                           "enumerated", "unknown", "nodata", "badbytes"} }
      \cup { [kind |-> "string", text |-> s] : s \in Texts }

\* property values: a native scalar; an object with a .value attribute; an
\* object without one.  repr is str(bacnet_value), tag its tagList.
RawValues ==
    { [form |-> "scalar", attr |-> v, repr |-> PlainText, tag |-> PlainTag("none")] :
        v \in {Number, Boolean} }
      \cup
    { [form |-> "valueAttr", attr |-> v, repr |-> PlainText, tag |-> PlainTag("none")] :
        v \in {Number, Boolean} \cup { Str(s) : s \in Texts } }
      \cup
    { v \in [form : {"valueAttr", "object"}, attr : {OtherObject}, repr : Texts,
             tag : Tags] :
        (v.repr.b /\ v.repr.o) \/ v.tag = PlainTag("none") }

\* BACnetClient._extract_from_taglist, lines 227-276
_extract_from_taglist(tag) ==
    CASE tag.kind = "bool" -> Boolean
      [] tag.kind \in {"unsigned", "integer", "real", "double", "enumerated"} -> Number
      [] tag.kind = "string" -> Str(tag.text)
      [] OTHER -> None

\* BACnetClient._extract_value, lines 189-225
_extract_value(v) ==
    IF v.form = "scalar" THEN v.attr
    ELSE IF v.form = "valueAttr" /\ v.attr.type \in {"number", "bool", "str"}
    THEN v.attr
    ELSE IF v.repr.b /\ v.repr.o
    THEN IF v.tag.kind # "none" THEN _extract_from_taglist(v.tag) ELSE None
    ELSE IF v.repr.numeric THEN Number
    ELSE IF ~v.repr.long THEN Str(v.repr)
    ELSE None

\* publish_point_value, line 231, with "and" in the place of "or"
leak_check_both(s) == s.b /\ s.o

\* publish_point_value, line 231: "bacpypes3" in value or "object at" in value
leak_check(s) == s.b \/ s.o

\* publish_point_value, lines 235-243: the cleaned value
clean_value(v) == IF v.type \in {"number", "bool"} THEN Number ELSE v

\* publish, line 199: json.dumps(payload) with ensure_ascii, told by the
\* substrings the text of the "value" member holds
json_dumps(v) ==
    IF v.type = "str"
    THEN [b |-> v.text.b \/ v.text.e, o |-> v.text.o]
    ELSE [b |-> FALSE, o |-> FALSE]

\* read_property, lines 115-116: the response's value is decoded
extract ==
    /\ dpc = "raw"
    /\ decoded' = _extract_value(raw)
    /\ dpc' = "decoded"
    /\ UNCHANGED <<raw, published_value, nonDecodeVars>>

\* poll_and_publish, line 375, and publish_point_value, lines 227-259: None
\* and leaking strings are not published
publish_point_value ==
    /\ dpc = "decoded"
    /\ IF decoded.type = "None" \/ (decoded.type = "str" /\ leak_check(decoded.text))
       THEN dpc' = "dropped" /\ published_value' = published_value
       ELSE dpc' = "published" /\ published_value' = clean_value(decoded)
    /\ UNCHANGED <<raw, decoded, nonDecodeVars>>

\* ------------------------------------------------------------ retries

\* how a ReadPropertyRequest can end: a response with a propertyValue, a
\* response without one, asyncio.TimeoutError, AbortPDU/RejectPDU/ErrorPDU
\* raised, any other exception
ReadEnds == {"value", "noValue", "timeout", "pdu", "exception"}

\* how a WritePropertyRequest can end
WriteEnds == {"ack", "timeout", "exception"}

\* read_property, line 97, with one attempt more: range(self.max_retries + 2)
last_attempt_extra == max_retries + 1

\* read_property, line 97: range(self.max_retries + 1) ends with this attempt
last_attempt == max_retries

\* read_property, lines 89-91, and write_property, lines 149-150
app_not_initialized ==
    /\ rpc = "request"
    /\ ~app
    /\ rpc' = "done"
    /\ result' = IF call = "read" THEN "None" ELSE "False"
    /\ UNCHANGED <<call, app, attempt, log, nonRetryVars>>

\* read_property, lines 97-134: one pass of the for loop up to its next await
\* or return.  A response with a propertyValue returns; a response without
\* one goes on to the next attempt at once; a failure sleeps 0.5 s unless it
\* was the last attempt.
read_property_attempt ==
    /\ rpc = "request"
    /\ app
    /\ call = "read"
    /\ \E end \in ReadEnds :
         /\ log' = Append(log, end)
         /\ IF end = "value"
            THEN rpc' = "done" /\ result' = "value" /\ attempt' = attempt
            ELSE IF attempt >= last_attempt
            THEN rpc' = "done" /\ result' = "None" /\ attempt' = attempt
            ELSE IF end = "noValue"
            THEN rpc' = "request" /\ result' = result /\ attempt' = attempt + 1
            ELSE rpc' = "backoff" /\ result' = result /\ attempt' = attempt
    /\ UNCHANGED <<call, app, nonRetryVars>>

\* read_property, lines 121, 126, 131: sleep(0.5) is over, the next attempt
read_property_backoff ==
    /\ rpc = "backoff"
    /\ rpc' = "request"
    /\ attempt' = attempt + 1
    /\ UNCHANGED <<call, app, log, result, nonRetryVars>>

\* write_property, lines 152-187: one request, no loop
write_property ==
    /\ rpc = "request"
    /\ app
    /\ call = "write"
    /\ \E end \in WriteEnds :
         /\ log' = Append(log, end)
         /\ result' = IF end = "ack" THEN "True" ELSE "False"
    /\ rpc' = "done"
    /\ UNCHANGED <<call, app, attempt, nonRetryVars>>

\* ------------------------------------------------------- the run loop
\* No discovery runs and one point with a topic is due in every pass.

LoopEffect(kind, conn, value_ok, stored, published) ==
    [kind |-> kind, connected |-> conn, value_ok |-> value_ok, stored |-> stored,
     published |-> published]

LoopQuiet == LoopEffect("other", FALSE, FALSE, FALSE, FALSE)

\* MQTTClient.connect, lines 51-87, as run uses it (lines 449-453 and
\* 498-502): with the broker down client.connect raises and loop_start is not
\* reached; with the broker up the loop is started and after the 2 s sleep
\* _on_connect has run or has not.  connect returns True on every path, so
\* the status written is "connected".
ConnectOutcomes ==
    IF broker
    THEN { [connected |-> c, mqtt_open |-> TRUE] : c \in BOOLEAN }
    ELSE { [connected |-> FALSE, mqtt_open |-> FALSE] }

\* MQTTClient.reconnect, lines 159-173, as run uses it (lines 508-510):
\* client.reconnect raises with the broker down; with the broker up
\* self.connected is returned after 1 s
ReconnectOutcomes == IF broker THEN BOOLEAN ELSE {FALSE}

\* poll_and_publish, lines 375-383, storing only while the session is up
stores_value_when_connected(value_ok, conn) == value_ok /\ conn

\* poll_and_publish, lines 375-383: a value that is not None is stored
stores_value(value_ok, conn) == value_ok

\* poll_and_publish, line 386, and MQTTClient.publish, lines 193-194
publishes_value(value_ok, conn) == value_ok /\ conn

\* run, lines 448-456
loop_connect ==
    /\ lpc = "start"
    /\ \E o \in ConnectOutcomes :
         /\ connected' = o.connected
         /\ mqtt_open' = o.mqtt_open
         /\ ever_connected' = o.connected
    /\ connectionStatus' = "connected"
    /\ lpc' = "top"
    /\ lev' = LoopEffect("connect", connected', FALSE, FALSE, FALSE)
    /\ UNCHANGED <<broker, bacnet_app, restart_file, overrides, arrived, written,
                   tick_mark, tick_queued, nonLoopVars>>

\* loop_top with the queue emptied by the reload
loop_top_drops_queue ==
    /\ lpc = "top"
    /\ restart_file' = FALSE
    /\ \E o \in (IF restart_file THEN ConnectOutcomes
                 ELSE {[connected |-> connected, mqtt_open |-> mqtt_open]}),
          r \in ReconnectOutcomes :
         LET up == o.connected \/ r IN
           /\ connected' = up
           /\ mqtt_open' = o.mqtt_open
           /\ ever_connected' = (ever_connected \/ up)
           /\ connectionStatus' = IF restart_file \/ up THEN "connected"
                                  ELSE connectionStatus
           /\ lev' = IF restart_file
                     THEN LoopEffect("reload", up, FALSE, FALSE, FALSE)
                     ELSE IF ~connected /\ ~up
                     THEN LoopEffect("reconnect_failed", up, FALSE, FALSE, FALSE)
                     ELSE LoopQuiet
    /\ overrides' = IF restart_file THEN <<>> ELSE overrides
    /\ tick_mark' = arrived
    /\ tick_queued' = Len(overrides)
    /\ lpc' = "drain"
    /\ UNCHANGED <<broker, bacnet_app, arrived, written, nonLoopVars>>

\* run, lines 461-510, with no discovery lock: an iteration begins.  With
\* the restart flag the flag is removed, the configuration reloaded into a
\* new MQTTClient and connect called on it (status "connected" on every
\* path; the client it replaces is not disconnected); then, with the session
\* down, reconnect is tried once and the status written only when it
\* succeeded.  self.pending_overrides is not touched.
loop_top ==
    /\ lpc = "top"
    /\ restart_file' = FALSE
    /\ \E o \in (IF restart_file THEN ConnectOutcomes
                 ELSE {[connected |-> connected, mqtt_open |-> mqtt_open]}),
          r \in ReconnectOutcomes :
         LET up == o.connected \/ r IN
           /\ connected' = up
           /\ mqtt_open' = o.mqtt_open
           /\ ever_connected' = (ever_connected \/ up)
           /\ connectionStatus' = IF restart_file \/ up THEN "connected"
                                  ELSE connectionStatus
           /\ lev' = IF restart_file
                     THEN LoopEffect("reload", up, FALSE, FALSE, FALSE)
                     ELSE IF ~connected /\ ~up
                     THEN LoopEffect("reconnect_failed", up, FALSE, FALSE, FALSE)
                     ELSE LoopQuiet
    /\ overrides' = overrides
    /\ tick_mark' = arrived
    /\ tick_queued' = Len(overrides)
    /\ lpc' = "drain"
    /\ UNCHANGED <<broker, bacnet_app, arrived, written, nonLoopVars>>

\* process_pending_overrides, lines 296-310: pop(0), then await write_property
loop_drain_one ==
    /\ lpc = "drain"
    /\ overrides # <<>>
    /\ written' = Append(written, Head(overrides))
    /\ overrides' = Tail(overrides)
    /\ lev' = LoopEffect("write", connected, FALSE, FALSE, FALSE)
    /\ UNCHANGED <<lpc, broker, connected, ever_connected, mqtt_open, bacnet_app,
                   connectionStatus, restart_file, arrived, tick_mark,
                   tick_queued, nonLoopVars>>

\* loop_drain_done without the while loop: poll_and_publish begins whatever
\* the queue holds
loop_drain_done_early ==
    /\ lpc = "drain"
    /\ lpc' = "poll"
    /\ lev' = LoopQuiet
    /\ UNCHANGED <<broker, connected, ever_connected, mqtt_open, bacnet_app,
                   connectionStatus, restart_file, overrides, arrived, written,
                   tick_mark, tick_queued, nonLoopVars>>

\* process_pending_overrides, line 296, and poll_and_publish, lines 322-373:
\* the while loop finds the queue empty, the pass begins and awaits the read
loop_drain_done ==
    /\ lpc = "drain"
    /\ overrides = <<>>
    /\ lpc' = "poll"
    /\ lev' = LoopQuiet
    /\ UNCHANGED <<broker, connected, ever_connected, mqtt_open, bacnet_app,
                   connectionStatus, restart_file, overrides, arrived, written,
                   tick_mark, tick_queued, nonLoopVars>>

\* poll_and_publish, lines 368-414, then run, line 521: the read returns, the
\* value is stored, published when the session is up, and after a publish
\* the status is written
loop_read ==
    /\ lpc = "poll"
    /\ \E value_ok \in BOOLEAN :
         /\ lev' = LoopEffect("read", connected, value_ok,
                              stores_value(value_ok, connected),
                              publishes_value(value_ok, connected))
         /\ connectionStatus' = IF publishes_value(value_ok, connected)
                                THEN "connected" ELSE connectionStatus
    /\ lpc' = "sleep"
    /\ UNCHANGED <<broker, connected, ever_connected, mqtt_open, bacnet_app,
                   restart_file, overrides, arrived, written, tick_mark,
                   tick_queued, nonLoopVars>>

\* run, line 521: sleep(1) is over
loop_sleep ==
    /\ lpc = "sleep"
    /\ lpc' = "top"
    /\ lev' = LoopQuiet
    /\ UNCHANGED <<broker, connected, ever_connected, mqtt_open, bacnet_app,
                   connectionStatus, restart_file, overrides, arrived, written,
                   tick_mark, tick_queued, nonLoopVars>>

\* _handle_override_message -> _queue_override_write, lines 275-286, on the
\* network thread of a connected session
override_arrives ==
    /\ lpc \notin {"start", "stopped"}
    /\ connected
    /\ arrived < MaxArrivals
    /\ arrived' = arrived + 1
    /\ overrides' = Append(overrides, arrived + 1)
    /\ lev' = LoopQuiet
    /\ UNCHANGED <<lpc, broker, connected, ever_connected, mqtt_open, bacnet_app,
                   connectionStatus, restart_file, written, tick_mark,
                   tick_queued, nonLoopVars>>

\* the broker goes away or comes back
broker_changes ==
    /\ broker' = ~broker
    /\ lev' = LoopQuiet
    /\ UNCHANGED <<lpc, connected, ever_connected, mqtt_open, bacnet_app,
                   connectionStatus, restart_file, overrides, arrived, written,
                   tick_mark, tick_queued, nonLoopVars>>

\* MQTTClient._on_disconnect, lines 140-144, with rc # 0: only the attribute
\* is cleared
session_lost ==
    /\ connected
    /\ connected' = FALSE
    /\ lev' = LoopEffect("disconnect", FALSE, FALSE, FALSE, FALSE)
    /\ UNCHANGED <<lpc, broker, ever_connected, mqtt_open, bacnet_app,
                   connectionStatus, restart_file, overrides, arrived, written,
                   tick_mark, tick_queued, nonLoopVars>>

\* MQTTClient._on_connect, lines 118-127, with rc = 0, called by the network
\* loop when the broker accepts the session
_on_connect ==
    /\ broker
    /\ mqtt_open
    /\ ~connected
    /\ connected' = TRUE
    /\ ever_connected' = TRUE
    /\ lev' = LoopQuiet
    /\ UNCHANGED <<lpc, broker, mqtt_open, bacnet_app, connectionStatus,
                   restart_file, overrides, arrived, written, tick_mark,
                   tick_queued, nonLoopVars>>

\* WorkerState.restart_worker, lines 105-108: the flag file is written
touch_restart_file ==
    /\ ~restart_file
    /\ restart_file' = TRUE
    /\ lev' = LoopQuiet
    /\ UNCHANGED <<lpc, broker, connected, ever_connected, mqtt_open, bacnet_app,
                   connectionStatus, overrides, arrived, written, tick_mark,
                   tick_queued, nonLoopVars>>

\* The worker is asked to stop: its task is cancelled (lifespan shutdown,
\* SIGTERM, KeyboardInterrupt under asyncio.run).  CancelledError is raised at
\* the await the task is suspended in; it is not an Exception, so run's
\* except clause (lines 518-519) lets it pass, and the statements after the
\* while True loop (lines 523-532) are not reached.
cancel ==
    /\ lpc \in {"drain", "poll", "sleep"}
    /\ lpc' = "stopped"
    /\ lev' = LoopEffect("cancel", connected, FALSE, FALSE, FALSE)
    /\ UNCHANGED <<broker, connected, ever_connected, mqtt_open, bacnet_app,
                   connectionStatus, restart_file, overrides, arrived, written,
                   tick_mark, tick_queued, nonLoopVars>>

\* ------------------------------------------- cancelling a discovery
\* One session; its start_discovery handler runs once at a time, and the
\* Cancel button's handler may run whenever start_discovery is suspended.

ScanJobs == 1..MaxScans

ScanJobsCreated == Cardinality({ j \in ScanJobs : job_status[j] # "none" })

\* DiscoveryState.start_discovery, lines 123-139
start_scan ==
    /\ hpc = "idle"
    /\ ~is_scanning
    /\ ScanJobsCreated < MaxScans
    /\ is_scanning' = TRUE
    /\ hpc' = "create"
    /\ cev' = "other"
    /\ UNCHANGED <<current_job_id, job_status, lock_exists, run_job, cancelled,
                   nonCancelVars>>

\* DiscoveryState.start_discovery, lines 140-160: the job row is created
\* with status "running" and its id kept in current_job_id
create_scan_job ==
    /\ hpc = "create"
    /\ LET id == ScanJobsCreated + 1 IN
         /\ job_status' = [job_status EXCEPT ![id] = "running"]
         /\ current_job_id' = <<id>>
    /\ hpc' = "call"
    /\ cev' = "other"
    /\ UNCHANGED <<is_scanning, lock_exists, run_job, cancelled, nonCancelVars>>

\* DiscoveryState.start_discovery, lines 162-170, and run_discovery_async,
\* lines 160-177: the run is called with current_job_id as it is now; with
\* None no job is found and the run does nothing, otherwise the lock file is
\* created
call_run ==
    /\ hpc = "call"
    /\ IF current_job_id = <<>>
       THEN /\ hpc' = "finish"
            /\ UNCHANGED <<run_job, lock_exists>>
       ELSE /\ run_job' = current_job_id[1]
            /\ lock_exists' = TRUE
            /\ hpc' = "run"
    /\ cev' = "other"
    /\ UNCHANGED <<is_scanning, current_job_id, job_status, cancelled, nonCancelVars>>

\* run_discovery_async, lines 179-232, and save_results, lines 339-347: the
\* run ends; the job row it was called with is set to "complete" or to
\* "error", and the finally clause removes the lock file
run_ends ==
    /\ hpc = "run"
    /\ \E outcome \in {"complete", "error"} :
         job_status' = [job_status EXCEPT ![run_job] = outcome]
    /\ lock_exists' = FALSE
    /\ run_job' = 0
    /\ hpc' = "finish"
    /\ cev' = "other"
    /\ UNCHANGED <<is_scanning, current_job_id, cancelled, nonCancelVars>>

\* DiscoveryState.start_discovery, lines 172-209: results reloaded, then the
\* finally clause
finish_scan ==
    /\ hpc = "finish"
    /\ is_scanning' = FALSE
    /\ current_job_id' = <<>>
    /\ hpc' = "idle"
    /\ cev' = "other"
    /\ UNCHANGED <<job_status, lock_exists, run_job, cancelled, nonCancelVars>>

\* DiscoveryState.start_discovery, lines 172-209, when a statement after the
\* run raises (the reload of the data at 178, the read of the job at 184):
\* the except clause at 191-203 writes "error" to the row of current_job_id,
\* then the finally clause
finish_scan_failed ==
    /\ hpc = "finish"
    /\ job_status' = IF current_job_id # <<>>
                      THEN [job_status EXCEPT ![current_job_id[1]] = "error"]
                      ELSE job_status
    /\ is_scanning' = FALSE
    /\ current_job_id' = <<>>
    /\ hpc' = "idle"
    /\ cev' = "other"
    /\ UNCHANGED <<lock_exists, run_job, cancelled, nonCancelVars>>

\* DiscoveryState.cancel_discovery, lines 211-227
cancel_discovery ==
    /\ IF is_scanning
       THEN /\ job_status' = IF current_job_id # <<>>
                             THEN [job_status EXCEPT ![current_job_id[1]] = "cancelled"]
                             ELSE job_status
            /\ cancelled' = cancelled \cup { current_job_id[i] : i \in 1..Len(current_job_id) }
            /\ is_scanning' = FALSE
            /\ current_job_id' = <<>>
            /\ lock_exists' = lock_exists
            /\ cev' = "cancelled"
       ELSE /\ cev' = "ignored"
            /\ UNCHANGED <<job_status, cancelled, is_scanning, current_job_id, lock_exists>>
    /\ UNCHANGED <<hpc, run_job, nonCancelVars>>

\* ------------------------------------------- MQTT clients and reload

ClientIds == 1..MaxClients

\* the write-command topic (load_mqtt_config, line 121) and OVERRIDE_PATTERN
\* (polling.py, line 36)
SubTopics == {"write/command", "override/#"}

QosLevels == {0, 1}

Subscription(topic, qos) == [topic |-> topic, qos |-> qos]

\* MQTTClient.__init__, lines 18-49
NewClient(client_id) ==
    [clientId |-> client_id, subscribe_topics |-> <<>>, loop |-> FALSE,
     connected |-> FALSE, subscribed |-> {}]

Registered(cl) == { cl.subscribe_topics[i] : i \in 1..Len(cl.subscribe_topics) }

\* add_subscription without the membership test of line 133
add_subscription_appends(cl, topic, qos) ==
    [cl EXCEPT !.subscribe_topics = Append(@, Subscription(topic, qos)),
               !.subscribed = IF cl.connected /\ cl.loop
                              THEN @ \cup {Subscription(topic, qos)} ELSE @]

\* MQTTClient.add_subscription, lines 131-138
add_subscription(cl, topic, qos) ==
    IF Subscription(topic, qos) \in Registered(cl)
    THEN cl
    ELSE [cl EXCEPT !.subscribe_topics = Append(@, Subscription(topic, qos)),
                    !.subscribed = IF cl.connected /\ cl.loop
                                   THEN @ \cup {Subscription(topic, qos)} ELSE @]

\* MQTTClient._on_connect, lines 118-127, with rc = 0
mqtt_on_connect(cl) ==
    [cl EXCEPT !.connected = TRUE, !.subscribed = Registered(cl)]

\* MQTTClient._on_disconnect, lines 140-144; the broker drops the
\* subscriptions of a clean session
mqtt_on_disconnect(cl) ==
    [cl EXCEPT !.connected = FALSE, !.subscribed = {}]

\* MQTTClient.disconnect, lines 151-157: nothing without a paho client
mqtt_disconnect(cl) ==
    IF cl.loop
    THEN [cl EXCEPT !.loop = FALSE, !.connected = FALSE, !.subscribed = {}]
    ELSE cl

\* MQTTClient.connect, lines 51-82, the broker reachable: the network loop
\* is started, and within the 2 s wait _on_connect has run (up) or not
mqtt_connect(cl, up) ==
    IF up THEN mqtt_on_connect([cl EXCEPT !.loop = TRUE])
    ELSE [cl EXCEPT !.loop = TRUE]

\* the broker keeps one session per client id: when c's session comes up,
\* a connected client with the same id is disconnected
Takeover(cs, c) ==
    [d \in ClientIds |->
       IF d # c /\ cs[c].connected /\ cs[d].connected /\ cs[d].clientId = cs[c].clientId
       THEN mqtt_on_disconnect(cs[d]) ELSE cs[d]]

\* the topics messages arrive on, and the broker's matching of a topic
\* against a subscription filter (# matches every level below override/)
MessageTopics == {"write/command", "override/site/ahu/1/sp"}

Matches(filter, topic) ==
    \/ filter = topic
    \/ filter = "override/#" /\ topic = "override/site/ahu/1/sp"

\* --- the client on its own

\* add_subscription called by the owner of the client
call_add_subscription(topic, qos) ==
    /\ clients' = [clients EXCEPT ![mqtt_client] = add_subscription(@, topic, qos)]
    /\ mev' = IF Subscription(topic, qos) \in Registered(clients[mqtt_client])
              THEN "add_again" ELSE "add"
    /\ UNCHANGED <<mqtt_client, n_clients, subscribe_enabled, cfg, flag_file,
                   map_stale, delivered, nonMqttVars>>

\* connect called by the owner of a client that has no network loop
call_connect ==
    /\ ~clients[mqtt_client].loop
    /\ \E up \in BOOLEAN :
         /\ clients' = [clients EXCEPT ![mqtt_client] = mqtt_connect(@, up)]
         /\ mev' = IF up THEN "connected" ELSE "connecting"
    /\ UNCHANGED <<mqtt_client, n_clients, subscribe_enabled, cfg, flag_file,
                   map_stale, delivered, nonMqttVars>>

\* disconnect called by the owner
call_disconnect ==
    /\ clients[mqtt_client].loop
    /\ clients' = [clients EXCEPT ![mqtt_client] = mqtt_disconnect(@)]
    /\ mev' = "closed"
    /\ UNCHANGED <<mqtt_client, n_clients, subscribe_enabled, cfg, flag_file,
                   map_stale, delivered, nonMqttVars>>

\* the network loop of client c completes a connection: _on_connect
session_up(c) ==
    /\ clients[c].loop
    /\ ~clients[c].connected
    /\ clients' = Takeover([clients EXCEPT ![c] = mqtt_on_connect(@)], c)
    /\ mev' = "connected"
    /\ UNCHANGED <<mqtt_client, n_clients, subscribe_enabled, cfg, flag_file,
                   map_stale, delivered, nonMqttVars>>

\* the connection of client c is lost: _on_disconnect
session_down(c) ==
    /\ clients[c].connected
    /\ clients' = [clients EXCEPT ![c] = mqtt_on_disconnect(@)]
    /\ mev' = "lost"
    /\ UNCHANGED <<mqtt_client, n_clients, subscribe_enabled, cfg, flag_file,
                   map_stale, delivered, nonMqttVars>>

\* --- the worker

\* PollingWorker.run, lines 440-456: the subscriptions are registered on the
\* client load_mqtt_config made, the client connects, the map is built
worker_start ==
    /\ mev = "none"
    /\ \E up \in BOOLEAN :
         LET a == add_subscription(clients[mqtt_client], "write/command", 1)
             b == IF subscribe_enabled THEN add_subscription(a, "override/#", 1) ELSE a
         IN clients' = [clients EXCEPT ![mqtt_client] = mqtt_connect(b, up)]
    /\ map_stale' = FALSE
    /\ mev' = "started"
    /\ UNCHANGED <<mqtt_client, n_clients, subscribe_enabled, cfg, flag_file,
                   delivered, nonMqttVars>>

\* SettingsState.save_mqtt_config, lines 168-210, and save_mqtt_subscription,
\* lines 353-372: the row is committed; nothing else is done
save_mqtt_config(client_id, enabled) ==
    /\ cfg' = [clientId |-> client_id, subscribeEnabled |-> enabled]
    /\ cfg' # cfg
    /\ mev' = IF mev = "none" THEN "none" ELSE "saved"
    /\ UNCHANGED <<clients, mqtt_client, n_clients, subscribe_enabled, flag_file,
                   map_stale, delivered, nonMqttVars>>

\* WorkerState.restart_worker, lines 105-108
request_restart ==
    /\ mev # "none"
    /\ ~flag_file
    /\ flag_file' = TRUE
    /\ mev' = "requested"
    /\ UNCHANGED <<clients, mqtt_client, n_clients, subscribe_enabled, cfg,
                   map_stale, delivered, nonMqttVars>>

\* a Point is saved in the UI
point_saved ==
    /\ mev # "none"
    /\ ~map_stale
    /\ map_stale' = TRUE
    /\ mev' = "point"
    /\ UNCHANGED <<clients, mqtt_client, n_clients, subscribe_enabled, cfg,
                   flag_file, delivered, nonMqttVars>>

\* PollingWorker.run, lines 461-521, without the restart flag: nothing of
\* the configuration is looked at
worker_iteration ==
    /\ mev # "none"
    /\ ~flag_file
    /\ mev' = "iteration"
    /\ UNCHANGED <<clients, mqtt_client, n_clients, subscribe_enabled, cfg,
                   flag_file, map_stale, delivered, nonMqttVars>>

\* PollingWorker.run, lines 482-505, with load_mqtt_config, lines 96-128:
\* the flag is removed; a new MQTTClient takes the place of the one in use,
\* which is left as it is; override/# is registered on the new client when
\* enabled; disconnect is called on the new client, which has no paho client
\* yet; the new client connects; the map is rebuilt
worker_reload ==
    /\ mev # "none"
    /\ flag_file
    /\ n_clients < MaxClients
    /\ flag_file' = FALSE
    /\ n_clients' = n_clients + 1
    /\ mqtt_client' = n_clients + 1
    /\ subscribe_enabled' = cfg.subscribeEnabled
    /\ \E up \in BOOLEAN :
         LET a == NewClient(cfg.clientId)
             b == IF cfg.subscribeEnabled THEN add_subscription(a, "override/#", 1) ELSE a
             c == mqtt_connect(mqtt_disconnect(b), up)
         IN clients' = Takeover([clients EXCEPT ![n_clients + 1] = c], n_clients + 1)
    /\ map_stale' = FALSE
    /\ mev' = "reload"
    /\ UNCHANGED <<cfg, delivered, nonMqttVars>>

\* a message is published on a topic: the broker sends it to every
\* connected client subscribed to it, and each client's network loop calls
\* handle_mqtt_message (MQTTClient._on_message, lines 146-149)
inbound_message(topic) ==
    /\ mev # "none"
    /\ delivered' = Cardinality({ c \in ClientIds :
                        /\ clients[c].loop
                        /\ clients[c].connected
                        /\ \E s \in clients[c].subscribed : Matches(s.topic, topic) })
    /\ mev' = "message"
    /\ UNCHANGED <<clients, mqtt_client, n_clients, subscribe_enabled, cfg,
                   flag_file, map_stale, nonMqttVars>>

\* ------------------------------------------------ a discovery scan

ScanDevices == 1..NScanDevices

Elements(seq) == { seq[i] : i \in 1..Len(seq) }

\* save_results, lines 251-256 and 293-295: the entries of points that carry
\* the device id, in the order of points
device_points(d) == SelectSeq(all_points, LAMBDA p : p[1] = d)

\* save_results, lines 294-335: each entry is looked up by (device,
\* objectType, objectInstance) in the session and inserted when absent
RECURSIVE SavePoints(_, _)
SavePoints(rows, entries) ==
    IF entries = <<>> THEN rows
    ELSE SavePoints(IF Head(entries) \in Elements(rows) THEN rows
                    ELSE Append(rows, Head(entries)),
                    Tail(entries))

JobRow(status, devices, points) ==
    [status |-> status, devicesFound |-> devices, pointsFound |-> points]

\* DiscoveryApp.do_IAmRequest, lines 50-59: the device is recorded and the
\* handler starts to read its objects
do_IAmRequest(d) ==
    /\ spc = "window"
    /\ Len(found_devices) < MaxIAm
    /\ found_devices' = Append(found_devices, d)
    /\ objects_read' = Append(objects_read, 0)
    /\ UNCHANGED <<all_points, spc, sidx, db_devices, db_points, session_devices,
                   session_points, devices_saved, points_saved, scan_status, prior,
                   nonScanVars>>

\* read_device_objects, lines 97-102, and read_object_properties, lines
\* 108-137: handler i has read the properties of its next object
read_object_properties(i) ==
    /\ spc = "window"
    /\ objects_read[i] < ObjectsPerDevice
    /\ objects_read' = [objects_read EXCEPT ![i] = @ + 1]
    /\ all_points' = Append(all_points, <<found_devices[i], objects_read[i] + 1>>)
    /\ UNCHANGED <<found_devices, spc, sidx, db_devices, db_points, session_devices,
                   session_points, devices_saved, points_saved, scan_status, prior,
                   nonScanVars>>

\* run_discovery_async, lines 205-211, and save_results, lines 237-248: the
\* sleep of timeout seconds is over; every Device row is deleted, its Points
\* with it, and the deletion committed
save_begin ==
    /\ spc = "window"
    /\ spc' = "saving"
    /\ sidx' = 1
    /\ devices_saved' = 0
    /\ points_saved' = 0
    /\ session_devices' = <<>>
    /\ session_points' = <<>>
    /\ db_devices' = <<>>
    /\ db_points' = <<>>
    /\ UNCHANGED <<found_devices, objects_read, all_points, scan_status, prior,
                   nonScanVars>>

\* save_results, lines 259-335: one entry of devices.  A device id that has
\* a row is updated; otherwise the row is inserted and committed, which
\* commits what the session held.  Then each of its entries in points is
\* updated or inserted in the session, and both counters count every entry.
save_device ==
    /\ spc = "saving"
    /\ sidx <= Len(found_devices)
    /\ LET d == found_devices[sidx]
           known == d \in Elements(session_devices) IN
         /\ session_devices' = IF known THEN session_devices
                               ELSE Append(session_devices, d)
         /\ db_devices' = IF known THEN db_devices ELSE session_devices'
         /\ db_points' = IF known THEN db_points ELSE session_points
         /\ session_points' = SavePoints(session_points, device_points(d))
         /\ points_saved' = points_saved + Len(device_points(d))
    /\ devices_saved' = devices_saved + 1
    /\ sidx' = sidx + 1
    /\ UNCHANGED <<found_devices, objects_read, all_points, spc, scan_status, prior,
                   nonScanVars>>

\* save_results, lines 337-347: the last commit, then the job row
save_finish ==
    /\ spc = "saving"
    /\ sidx > Len(found_devices)
    /\ db_devices' = session_devices
    /\ db_points' = session_points
    /\ scan_status' = JobRow("complete", devices_saved, points_saved)
    /\ spc' = "done"
    /\ UNCHANGED <<found_devices, objects_read, all_points, sidx, session_devices,
                   session_points, devices_saved, points_saved, prior, nonScanVars>>

\* save_results raises at a statement after the deletion (the database is
\* locked, the disk is full): what was not committed is lost, and
\* run_discovery_async, lines 215-226, sets the job to "error"
save_fails ==
    /\ spc = "saving"
    /\ session_devices' = db_devices
    /\ session_points' = db_points
    /\ scan_status' = JobRow("error", 0, 0)
    /\ spc' = "done"
    /\ UNCHANGED <<found_devices, objects_read, all_points, sidx, db_devices,
                   db_points, devices_saved, points_saved, prior, nonScanVars>>

\* ------------------------------------------------------ specification

\* the coordination variables before PollingWorker.run has started
InitCoord ==
    /\ lockFile = FALSE
    /\ wpc = "init"
    /\ client = "None"
    /\ tickLock = FALSE
    /\ pollIdx = 0
    /\ upc = [s \in Sessions |-> "idle"]
    /\ waitI = [s \in Sessions |-> 0]
    /\ curJob = [s \in Sessions |-> 0]
    /\ job = [j \in JobIds |-> "none"]
    /\ dapp = [s \in Sessions |-> FALSE]
    /\ leaked = FALSE
    /\ ev = "none"

\* the override pipeline before PollingWorker.run has started, the store
\* holding the point as some earlier save left it
InitWrite ==
    /\ point \in Points
    /\ restartFlag = FALSE
    /\ topic_to_point = {}
    /\ pending_overrides = <<>>
    /\ pending_commands = <<>>
    /\ xpc = "init"
    /\ probe = NoProbe
    /\ wev = Effect("none", "none", 0, 0, 0)

\* the poll scheduler before the first poll pass
InitCadence ==
    /\ now \in 0..(SecondsPerMinute - 1)
    /\ pollInterval \in PollIntervals
    /\ point_last_poll = <<>>
    /\ cpc = "poll"
    /\ prevRead = -1
    /\ gap = 0
    /\ failedSince = FALSE

\* one store / one schedule, for the specifications that do not move them
FixedWrite ==
    InitWrite /\ point = SavedPoint(<<NoTag, NoTag, NoTag, NoTag, NoTag, NoTag,
                                      NoTag, NoTag>>, FALSE, FALSE,
                                    [minPresValue |-> <<>>, maxPresValue |-> <<>>])

FixedCadence == InitCadence /\ now = 0 /\ pollInterval = SecondsPerMinute

\* the poller before its first pass, MQTT connected, no error counted
InitPoll ==
    /\ duePoints \in [DuePointIds -> [hasTopic : BOOLEAN, parsable : BOOLEAN]]
    /\ ppc = "idle"
    /\ pidx = 0
    /\ mqttConnected = TRUE
    /\ errorCount = [p \in DuePointIds |-> 0]
    /\ pev = PollEffect("none", 0, "none", 0, 0)

FixedPoll ==
    InitPoll /\ duePoints = [p \in DuePointIds |-> [hasTopic |-> TRUE, parsable |-> TRUE]]

\* a property value as the response carries it
InitDecode ==
    /\ raw \in RawValues
    /\ decoded = None
    /\ published_value = None
    /\ dpc = "raw"

FixedDecode ==
    InitDecode /\ raw = [form |-> "scalar", attr |-> Number, repr |-> PlainText,
                         tag |-> PlainTag("none")]

\* a call of read_property or write_property as it begins
InitRetry ==
    /\ call \in {"read", "write"}
    /\ app \in BOOLEAN
    /\ attempt = 0
    /\ log = <<>>
    /\ rpc = "request"
    /\ result = "pending"

FixedRetry == InitRetry /\ call = "read" /\ app = TRUE

\* run at line 448: configuration loaded, BACnet initialised, status
\* "connecting" written
InitLoop ==
    /\ lpc = "start"
    /\ broker \in BOOLEAN
    /\ connected = FALSE
    /\ ever_connected = FALSE
    /\ mqtt_open = FALSE
    /\ bacnet_app = TRUE
    /\ connectionStatus = "connecting"
    /\ restart_file = FALSE
    /\ overrides = <<>>
    /\ arrived = 0
    /\ written = <<>>
    /\ tick_mark = 0
    /\ tick_queued = 0
    /\ lev = LoopEffect("none", FALSE, FALSE, FALSE, FALSE)

FixedLoop == InitLoop /\ broker = TRUE

\* PollingWorker.run at line 440: load_mqtt_config has made the first client
\* from the row in the store
InitMqtt ==
    /\ cfg \in [clientId : {1, 2}, subscribeEnabled : BOOLEAN]
    /\ clients = [c \in ClientIds |-> NewClient(IF c = 1 THEN cfg.clientId ELSE 0)]
    /\ mqtt_client = 1
    /\ n_clients = 1
    /\ subscribe_enabled = cfg.subscribeEnabled
    /\ flag_file = FALSE
    /\ map_stale = TRUE
    /\ delivered = 0
    /\ mev = "none"

FixedMqtt == InitMqtt /\ cfg = [clientId |-> 1, subscribeEnabled |-> TRUE]

\* run_discovery_async at line 205: Who-Is sent, the job "running", the
\* store empty or holding what an earlier scan saved
PriorStores ==
    { [devices |-> <<>>, points |-> <<>>],
      [devices |-> <<1>>, points |-> <<<<1, 1>>, <<1, 2>>>>] }

InitScan ==
    /\ prior \in PriorStores
    /\ found_devices = <<>>
    /\ objects_read = <<>>
    /\ all_points = <<>>
    /\ spc = "window"
    /\ sidx = 1
    /\ db_devices = prior.devices
    /\ db_points = prior.points
    /\ session_devices = prior.devices
    /\ session_points = prior.points
    /\ devices_saved = 0
    /\ points_saved = 0
    /\ scan_status = JobRow("running", 0, 0)

FixedScan == InitScan /\ prior.devices = <<>>

\* DiscoveryState as constructed, no job rows, no lock file
InitCancel ==
    /\ is_scanning = FALSE
    /\ current_job_id = <<>>
    /\ job_status = [j \in ScanJobs |-> "none"]
    /\ lock_exists = FALSE
    /\ hpc = "idle"
    /\ run_job = 0
    /\ cancelled = {}
    /\ cev = "none"

\* the store as a first discovery leaves it
InitStore ==
    /\ store = [p \in PointIds |-> new_point(p)]
    /\ lastOp = "none"

\* discovery / polling coordination
Init == InitCoord /\ FixedWrite /\ FixedCadence /\ InitStore /\ FixedPoll /\ FixedDecode /\ FixedRetry
           /\ FixedLoop /\ InitCancel /\ FixedMqtt /\ FixedScan

Next ==
    \/ WorkerStartup
    \/ WorkerLoopTop
    \/ WorkerResume
    \/ WorkerPollRead
    \/ WorkerPollEnd
    \/ \E s \in Sessions : StartDiscovery(s)
    \/ \E s \in Sessions : CreateJob(s)
    \/ \E s \in Sessions : RunBegin(s)
    \/ \E s \in Sessions : PortWait(s)
    \/ \E s \in Sessions : WhoIs(s)
    \/ \E s \in Sessions : Collect(s)
    \/ \E s \in Sessions : FinishDiscovery(s)

Spec == Init /\ [][Next]_vars

\* overrides and write commands
InitW == InitCoord /\ InitWrite /\ FixedCadence /\ InitStore /\ FixedPoll /\ FixedDecode /\ FixedRetry
           /\ FixedLoop /\ InitCancel /\ FixedMqtt /\ FixedScan

NextWrite ==
    \/ run_start
    \/ run_iteration
    \/ process_pending_overrides
    \/ run_iteration_end
    \/ \E topic \in OverrideTopics, payload \in Payloads :
         _handle_override_message(topic, payload)
    \/ _handle_write_command
    \/ \E tags \in TagSets, publish \in BOOLEAN, writable \in BOOLEAN,
          range \in RangeSets : save_point(tags, publish, writable, range)
    \/ restart_worker
    \/ \E command \in Commands : queue_command(command)
    \/ execute_command

SpecWrite == InitW /\ [][NextWrite]_vars

\* poll cadence
InitC == InitCoord /\ FixedWrite /\ InitCadence /\ InitStore /\ FixedPoll /\ FixedDecode /\ FixedRetry
           /\ FixedLoop /\ InitCancel /\ FixedMqtt /\ FixedScan

NextCadence == poll_and_publish \/ run_sleep

SpecCadence == InitC /\ [][NextCadence]_vars

\* the store of points under the UI operations and discovery
InitS == InitCoord /\ FixedWrite /\ FixedCadence /\ InitStore /\ FixedPoll /\ FixedDecode /\ FixedRetry
           /\ FixedLoop /\ InitCancel /\ FixedMqtt /\ FixedScan

NextStore ==
    \/ \E p \in PointIds, tags \in StoreTagSets, publish \in BOOLEAN :
         _save_point_sync(p, tags, publish)
    \/ \E p \in PointIds, enabled \in BOOLEAN : _toggle_mqtt_sync(p, enabled)
    \/ \E point_ids \in SUBSET PointIds \ {{}} : _bulk_enable_mqtt_sync(point_ids)
    \/ \E point_ids \in SUBSET PointIds \ {{}} : _bulk_disable_mqtt_sync(point_ids)
    \/ \E bulk_site_id \in BulkSites, device_config \in [Devices -> BulkEquipment] :
         _apply_bulk_config_sync(bulk_site_id, device_config)
    \/ save_results

SpecStore == InitS /\ [][NextStore]_vars

\* reading and publishing
InitP == InitCoord /\ FixedWrite /\ FixedCadence /\ InitStore /\ InitPoll /\ FixedDecode /\ FixedRetry
           /\ FixedLoop /\ InitCancel /\ FixedMqtt /\ FixedScan

NextPoll == poll_pass_begin \/ poll_point \/ poll_pass_end \/ _on_disconnect

SpecPoll == InitP /\ [][NextPoll]_vars

\* value decoding
InitD == InitCoord /\ FixedWrite /\ FixedCadence /\ InitStore /\ FixedPoll /\ InitDecode
           /\ FixedRetry /\ FixedLoop /\ InitCancel /\ FixedMqtt /\ FixedScan

NextDecode == extract \/ publish_point_value

SpecDecode == InitD /\ [][NextDecode]_vars

\* retries of one BACnet call; every await of the call returns
InitR == InitCoord /\ FixedWrite /\ FixedCadence /\ InitStore /\ FixedPoll /\ FixedDecode
           /\ InitRetry /\ FixedLoop /\ InitCancel /\ FixedMqtt /\ FixedScan

NextRetry ==
    \/ app_not_initialized
    \/ read_property_attempt
    \/ read_property_backoff
    \/ write_property

SpecRetry == InitR /\ [][NextRetry]_vars

SpecRetryLive == SpecRetry /\ WF_vars(NextRetry)

\* the run loop, the MQTT session and the override queue
InitL == InitCoord /\ FixedWrite /\ FixedCadence /\ InitStore /\ FixedPoll /\ FixedDecode
           /\ FixedRetry /\ InitLoop /\ InitCancel /\ FixedMqtt /\ FixedScan

NextLoop ==
    \/ loop_connect
    \/ loop_top
    \/ loop_drain_one
    \/ loop_drain_done
    \/ loop_read
    \/ loop_sleep
    \/ override_arrives
    \/ broker_changes
    \/ session_lost
    \/ _on_connect
    \/ touch_restart_file
    \/ cancel

SpecLoop == InitL /\ [][NextLoop]_vars

\* a discovery from the UI and its cancellation
NextCancel ==
    \/ start_scan
    \/ create_scan_job
    \/ call_run
    \/ run_ends
    \/ finish_scan
    \/ finish_scan_failed
    \/ cancel_discovery

SpecCancel == Init /\ [][NextCancel]_vars

InitM == InitCoord /\ FixedWrite /\ FixedCadence /\ InitStore /\ FixedPoll /\ FixedDecode
           /\ FixedRetry /\ FixedLoop /\ InitCancel /\ InitMqtt /\ FixedScan

\* one MQTTClient and the calls its owner can make
NextClient ==
    \/ \E topic \in SubTopics, qos \in QosLevels : call_add_subscription(topic, qos)
    \/ call_connect
    \/ call_disconnect
    \/ session_up(mqtt_client)
    \/ session_down(mqtt_client)

SpecClient == InitM /\ [][NextClient]_vars

\* the worker, its clients, the configuration row and the restart flag
NextReload ==
    \/ worker_start
    \/ \E client_id \in {1, 2}, enabled \in BOOLEAN : save_mqtt_config(client_id, enabled)
    \/ request_restart
    \/ point_saved
    \/ worker_iteration
    \/ worker_reload
    \/ \E c \in ClientIds : session_up(c)
    \/ \E c \in ClientIds : session_down(c)
    \/ \E topic \in MessageTopics : inbound_message(topic)

SpecReload == InitM /\ [][NextReload]_vars

\* one discovery scan from the Who-Is to the job's final status
InitSc == InitCoord /\ FixedWrite /\ FixedCadence /\ InitStore /\ FixedPoll /\ FixedDecode
           /\ FixedRetry /\ FixedLoop /\ InitCancel /\ FixedMqtt /\ InitScan

NextScan ==
    \/ \E d \in ScanDevices : do_IAmRequest(d)
    \/ \E i \in 1..MaxIAm : i <= Len(found_devices) /\ read_object_properties(i)
    \/ save_begin
    \/ save_device
    \/ save_finish
    \/ save_fails

SpecScan == InitSc /\ [][NextScan]_vars

\* ------------------------------------------------------------ claims

SomeJobRunning == \E j \in JobIds : job[j] = "running"

\* C1 (as stated): while any DiscoveryJob has status "running" the worker
\* issues no BACnet read.
C1_NoReadWhileJobRunning == ev = "read" => ~SomeJobRunning

\* C1 (amended): the worker issues a BACnet read only in a loop iteration
\* whose lock check found the flag absent, and through an open client; once
\* an iteration has found the flag it holds no client, so it reads nothing
\* until the flag is gone and the check has been repeated.
C1_NoReadOncePaused ==
    /\ ev = "read" => (wpc = "poll" /\ ~tickLock /\ client = "bound")
    /\ wpc = "paused" => (tickLock /\ client = "None")

\* C1 witness: a job is running, its run has set the flag, and the worker has
\* observed the flag and paused.
C1_Witness ==
    /\ wpc = "paused" /\ lockFile /\ client = "None"
    /\ \E s \in Sessions : curJob[s] # 0 /\ job[curJob[s]] = "running" /\ dapp[s]

\* C2: at no time do the worker's BACnet client and a discovery endpoint
\* both hold the BACnet UDP port: when the worker leaves its pause and
\* re-binds, every discovery endpoint has been closed, whatever the outcome
\* of the run.
C2_RebindOnlyAfterClose ==
    [][(wpc = "paused" /\ wpc' # "paused")
          => ~(WorkerHoldsPort' /\ DiscoveryHoldsPort')]_vars

\* C9: whenever a discovery run ends, normally or by a failure, the
\* coordination flag file does not exist.
C9_FlagClearedAtRunEnd == ev \in {"endOk", "endError"} => ~lockFile

\* C9 witness: a run that had opened its endpoint ended by an exception.
C9_Witness == ev = "endError" /\ leaked /\ ~lockFile

\* C10: after the flag is cleared the worker is able to read again: in its
\* polling loop it holds an open BACnet engine.
C10_EngineOpenWhilePolling == wpc \in {"poll", "sleep"} => client = "bound"

\* C3: every write attempt that has run its course, an override or a write
\* command, refused by validation or sent to BACnet, has added exactly one
\* WriteHistory row.
C3_OneHistoryRowPerAttempt ==
    wev.kind \in {"rejected", "write"} => wev.rows = 1

\* C4: every write command the worker has finished with has produced exactly
\* one result envelope.
C4_OneResultPerCommand ==
    (wev.src = "command" /\ wev.kind \in {"dropped", "rejected", "write"})
        => wev.results = 1

\* C5: whenever a BACnet write is dispatched, the Point in the store is
\* writable and, if its haystackPointName has at least 4 parts, the 4th is "sp".
C5_WriteGating ==
    wev.kind = "write" => (point.isWritable /\ sp_ok(point.haystackPointName))

\* C6: no BACnet write is dispatched with a value below the Point's
\* minPresValue or above its maxPresValue.
C6_RangeEnforced == wev.kind = "write" => in_range(wev.value, point)

\* C7: an override {value: v} on override/T, T the topic derived from the
\* Point's tags, v in range, the Point published, writable and a setpoint,
\* has been written to BACnet by the time the second loop iteration after
\* its arrival begins.
C7_OverrideRouted == probe.ticks >= 2 => probe.fate = "written"

\* C8: with no read failure in between, two consecutive successful polls of
\* the point are pollInterval - 2 .. pollInterval + 2 seconds apart.
C8_Cadence ==
    gap # 0 => (gap >= pollInterval - 2 /\ gap <= pollInterval + 2)

\* C11: at most one DiscoveryJob has status "running", whatever the
\* interleaving of start_discovery requests of the UI sessions.
C11_AtMostOneRunning == Cardinality({j \in JobIds : job[j] = "running"}) <= 1

NonEmptyTag(tag) == tag # NoTag

\* the topic the tags give when each non-empty tag is one level of it
\* (the tags joined by "/", then "/<objectInstance>"), as a sequence of
\* levels, each level the sequence of its dot-free segments
TagsJoinedBySlash(tags, instance) ==
    LET levels == SelectSeq(tags, NonEmptyTag) IN
      IF levels = <<>> THEN <<>> ELSE Append(levels, <<instance>>)

\* the levels of a stored topic, in the same form
TopicLevels(topic) == [i \in 1..Len(topic) |-> <<topic[i]>>]

C13_TopicsUnique ==
    /\ \A p, q \in PointIds :
         (p # q /\ store[p].mqttTopic # <<>>) => store[p].mqttTopic # store[q].mqttTopic
    /\ Cardinality(override_map_keys)
         = Cardinality({ p \in PointIds :
                           pollable(store[p]) /\ store[p].mqttTopic # <<>> })

\* C14: a Point whose siteId is empty has no topic, whatever its other seven
\* tags are.
C14_NoSiteNoTopic ==
    \A p \in PointIds : store[p].tags[1] = NoTag => store[p].mqttTopic = <<>>

\* C16: a reading that returned a clean value is published exactly once when
\* the Point has a topic and not at all when it has none (Points with
\* mqttPublish=false are never read); nothing else suppresses the publish.
C16_OnePublishPerReading ==
    (pev.kind = "read" /\ pev.outcome = "value")
        => pev.published = (IF duePoints[pev.pid].hasTopic THEN 1 ELSE 0)

\* C17: a read that finally failed has incremented the Point's errorCount
\* and has published one failure envelope when the Point has a topic.
C17_FailureRecorded ==
    (pev.kind = "read" /\ pev.outcome = "None")
        => /\ errorCount[pev.pid] >= 1
           /\ duePoints[pev.pid].hasTopic => pev.envelopes = 1

\* C18: no failure while reading a Point ends the pass: nothing is raised out
\* of the read and the remaining due Points are still polled.
C18_ReadFailureContained == pev.kind # "aborted"

\* C15: the "value" of a published point payload, serialized to JSON, never
\* holds "bacpypes3" or "object at", whatever the decoder returned.
C15_NoLeakSerialized ==
    dpc = "published" =>
        ~(json_dumps(published_value).b \/ json_dumps(published_value).o)

\* C15, amended: the "value" of a published point payload, as the string
\* the subscriber parses out of the JSON, never holds "bacpypes3" or
\* "object at", whatever the decoder returned.
C15_NoLeak ==
    dpc = "published" =>
        ~(published_value.type = "str"
            /\ (published_value.text.b \/ published_value.text.o))

\* C15 witness: the decoder returned a string that holds "object at" but not
\* "bacpypes3", and the publisher dropped it.
C15_Witness ==
    /\ dpc = "dropped"
    /\ decoded.type = "str" /\ decoded.text.o /\ ~decoded.text.b

\* C19: a rejected write command's validationErrors holds exactly one code,
\* the first check to fail, and no BACnet write is issued for it.
C19_FirstFailureOnly ==
    (wev.src = "command" /\ wev.kind = "rejected")
        => (Len(wev.errors) = 1 /\ wev.rows = 0)

\* C20: every dispatched BACnet write targets a Point whose pointFunction
\* tag is "sp".
C20_WritesOnlyToSetpoints == wev.kind = "write" => point.tags[4] = <<"sp">>

\* C21: an override message whose payload is a bare scalar, arriving on the
\* override topic of a mapped, writable Point, is enqueued.
C21_BareScalarEnqueued ==
    [][\A topic \in OverrideTopics, payload \in Payloads :
         (/\ _handle_override_message(topic, payload)
          /\ payload.json = "number"
          /\ \E e \in topic_to_point : e.topic = topic /\ e.isWritable)
           => Len(pending_overrides') = Len(pending_overrides) + 1]_vars

\* C22: the MQTT inbound callback only enqueues: handling a write command or
\* an override sends no WriteProperty, and a write command is placed on the
\* pending-command queue.
C22_CallbackOnlyEnqueues ==
    [][/\ (\E topic \in OverrideTopics, payload \in Payloads :
              _handle_override_message(topic, payload))
           => wev'.kind # "write"
       /\ _handle_write_command
           => (/\ wev'.kind # "write"
               /\ Len(pending_commands') = Len(pending_commands) + 1)]_vars

\* C29: the pass that first sees the point does not read it and sets its
\* last-poll time to B - pollInterval, B the first minute boundary after the
\* pass; every read of the point is issued pollInterval or more after its
\* last-poll time, so the first read is issued at B or later.
C29_FirstReadAtBoundary ==
    [][/\ (point_last_poll = <<>> /\ point_last_poll' # <<>>)
          => LET B == point_last_poll'[1] + pollInterval IN
               /\ B % 60 = 0 /\ B > now /\ B <= now + 60
               /\ prevRead' = prevRead /\ failedSince' = failedSince
       /\ (prevRead' # prevRead \/ (failedSince' /\ ~failedSince))
          => (/\ point_last_poll # <<>>
              /\ now >= point_last_poll[1] + pollInterval)]_vars

\* C29 witness: the point has been read once, at a minute boundary or later,
\* and no read of it has failed.
C29_Witness ==
    /\ prevRead >= 60 /\ gap = 0 /\ ~failedSince
    /\ point_last_poll = <<aligned_time(prevRead, pollInterval)>>

AllTimedOut == log # <<>> /\ \A i \in 1..Len(log) : log[i] = "timeout"

\* C30 (as stated): reads and writes follow one retry policy: a call whose
\* attempts all timed out has made max_retries + 1 attempts and returned a
\* failure, and no call makes more attempts than that or goes on forever.
C30_UnifiedRetry ==
    /\ [](Len(log) <= max_retries + 1)
    /\ []((rpc = "done" /\ AllTimedOut)
            => (Len(log) = max_retries + 1 /\ result \in {"None", "False"}))
    /\ <>(rpc = "done")

\* C30 (amended): a read whose attempts all timed out has made
\* max_retries + 1 attempts and returned None; a write makes one attempt and
\* is never retried; no call makes more than max_retries + 1 attempts, and
\* every call returns.
C30_ReadRetriesWriteDoesNot ==
    /\ [](Len(log) <= max_retries + 1)
    /\ []((rpc = "done" /\ call = "read" /\ AllTimedOut)
            => (Len(log) = max_retries + 1 /\ result = "None"))
    /\ []((rpc = "done" /\ call = "write" /\ app)
            => (Len(log) = 1 /\ (log[1] # "ack" => result = "False")))
    /\ <>(rpc = "done")

\* C30 witness: a read has returned None after four timeouts.
C30_Witness ==
    /\ rpc = "done" /\ call = "read" /\ result = "None"
    /\ AllTimedOut /\ Len(log) = max_retries + 1

\* C23: when a read is issued, every override that was queued before the
\* iteration began has been handed to write_property, and the writes were
\* made in arrival order.
C23_OverridesBeforeReads ==
    lev.kind = "read"
        => /\ \A i \in 1..tick_mark : \E k \in 1..Len(written) : written[k] = i
           /\ \A j, k \in 1..Len(written) : j < k => written[j] < written[k]

\* C23 witness: a read follows an iteration that began with two or more
\* overrides queued and wrote them.
C23_Witness == lev.kind = "read" /\ tick_queued >= 2 /\ Len(written) >= tick_mark

\* C24: the store says "connected" only when the session has connected, and
\* an iteration that found the session down and could not reconnect has set
\* the status to "disconnected".
C24_StatusTruthful ==
    /\ connectionStatus = "connected" => ever_connected
    /\ lev.kind = "reconnect_failed" => connectionStatus = "disconnected"

\* C25: a read made while the MQTT session is down stores its value, is not
\* published, and the loop goes on to its sleep.
C25_PollsWhileDisconnected ==
    (lev.kind = "read" /\ ~lev.connected)
        => (lev.stored = lev.value_ok /\ ~lev.published /\ lpc \in {"sleep", "top"})

\* C25 witness: with the session down a value has been read and stored.
C25_Witness ==
    lev.kind = "read" /\ ~lev.connected /\ ~connected /\ lev.value_ok /\ lev.stored

\* C27: the overrides queued so far are, in arrival order and each once,
\* those already written followed by those still queued, whatever reloads
\* have happened.
C27_QueueSurvivesReload ==
    written \o overrides = [i \in 1..arrived |-> i]

\* C27 witness: a reload has just been handled with overrides in the queue.
C27_Witness == lev.kind = "reload" /\ overrides # <<>> /\ lpc = "drain"

\* C28: a worker that has stopped has closed its MQTT session and its BACnet
\* engine.
C28_StoppedMeansClosed == lpc = "stopped" => (~mqtt_open /\ ~bacnet_app)

\* C26: a job that cancel_discovery has acted on has status "cancelled", and
\* when cancel_discovery has acted the discovery lock file is gone.
C26_CancelStopsDiscovery ==
    /\ \A j \in cancelled : job_status[j] = "cancelled"
    /\ cev = "cancelled" => ~lock_exists

\* C31: a request whose attempts all ended in an abort, reject or error PDU
\* has been attempted at most twice.
C31_NonTimeoutRetriedOnce ==
    (log # <<>> /\ \A i \in 1..Len(log) : log[i] = "pdu") => Len(log) <= 2

\* C32: when the worker has handled the restart flag, the flag file is gone,
\* the override map is built from the current Points, and the client in use
\* has registered the write-command topic at QoS 1 and, exactly when override
\* subscription is enabled, override/# at QoS 1.
C32_ReloadRestoresSubscriptions ==
    mev = "reload"
        => /\ ~flag_file
           /\ ~map_stale
           /\ Registered(clients[mqtt_client])
                = {Subscription("write/command", 1)}
                  \cup (IF subscribe_enabled THEN {Subscription("override/#", 1)} ELSE {})

\* C33: after an iteration of the worker's loop that follows a committed
\* change of the MQTT configuration, the client in use has been made from
\* the committed row and the override subscription setting is the committed
\* one.
C33_ChangeAppliedAtNextCheck ==
    mev \in {"iteration", "reload"}
        => /\ clients[mqtt_client].clientId = cfg.clientId
           /\ subscribe_enabled = cfg.subscribeEnabled

\* C36: add_subscription with a topic and QoS that are already registered
\* changes nothing of the client, the list of registered subscriptions never
\* holds an entry twice, and when a connection has been made the
\* subscriptions at the broker are exactly the registered ones.
C36_AddIdempotentResubscribe ==
    [][/\ \A topic \in SubTopics, qos \in QosLevels :
            (/\ call_add_subscription(topic, qos)
             /\ Subscription(topic, qos) \in Registered(clients[mqtt_client]))
               => clients' = clients
       /\ Cardinality(Registered(clients'[mqtt_client]))
            = Len(clients'[mqtt_client].subscribe_topics)
       /\ mev' = "connected"
            => clients'[mqtt_client].subscribed = Registered(clients'[mqtt_client])]_vars

\* C36 witness: add_subscription has been called with a registered topic
\* and QoS on a connected client that holds two or more subscriptions.
C36_Witness ==
    /\ mev = "add_again"
    /\ clients[mqtt_client].connected
    /\ Len(clients[mqtt_client].subscribe_topics) >= 2
    /\ clients[mqtt_client].subscribed = Registered(clients[mqtt_client])

\* C39: at most one MQTT client of the worker has a running network loop,
\* and an inbound message causes at most one call of the callback.
C39_OneClientAfterReload ==
    /\ Cardinality({ c \in ClientIds : clients[c].loop }) <= 1
    /\ delivered <= 1

\* C34: the committed Device and Point rows are at every moment either the
\* complete set the store held before the scan or the complete set the scan
\* found.
C34_SaveAtomic ==
    \/ (db_devices = prior.devices /\ db_points = prior.points)
    \/ (/\ Elements(db_devices) = Elements(found_devices)
        /\ Elements(db_points) = Elements(all_points))

\* C35: when the job is complete, every device that answered I-Am has a
\* Device row and a Point row for each of its objects.
C35_DevicesSavedWithAllObjects ==
    scan_status.status = "complete"
        => \A d \in Elements(found_devices) :
             /\ d \in Elements(db_devices)
             /\ \A o \in 1..ObjectsPerDevice : <<d, o>> \in Elements(db_points)

\* C40: when the job is complete, devicesFound is the number of Device rows
\* and pointsFound the number of Point rows, and no deviceId and no
\* (device, object) occurs in two rows.
C40_CountsMatchRows ==
    /\ scan_status.status = "complete"
         => /\ scan_status.devicesFound = Len(db_devices)
            /\ scan_status.pointsFound = Len(db_points)
    /\ Cardinality(Elements(db_devices)) = Len(db_devices)
    /\ Cardinality(Elements(db_points)) = Len(db_points)

\* C38: a DiscoveryJob whose status is complete, error or cancelled keeps
\* that status in every later step.
C38_TerminalStatusFinal ==
    [][\A j \in ScanJobs :
         job_status[j] \in {"complete", "error", "cancelled"}
            => job_status'[j] = job_status[j]]_vars

\* the point is due in the pass that starts now: it has a last-poll time,
\* pollInterval or more has gone by since, and now is in the alignment window
PointDue ==
    /\ point_last_poll # <<>>
    /\ now - point_last_poll[1] >= pollInterval
    /\ ((now % 60) % pollInterval) < 2

\* C37: a pass in which the point is due reads it; a read that fails leaves
\* the last-poll time as it was, so that the point is still due afterwards;
\* a last-poll time changes only in a pass with a successful read, and then
\* to floor(now / pollInterval) * pollInterval.
C37_FailedReadKeepsLastPoll ==
    /\ []((failedSince /\ point_last_poll # <<>>)
            => now - point_last_poll[1] >= pollInterval)
    /\ [][/\ (cpc = "poll" /\ cpc' = "sleep" /\ PointDue /\ prevRead' # now)
             => (failedSince' /\ point_last_poll' = point_last_poll)
          /\ (point_last_poll # <<>> /\ point_last_poll' # point_last_poll)
             => (/\ cpc = "poll" /\ PointDue
                 /\ prevRead' = now /\ ~failedSince'
                 /\ point_last_poll'[1] = (now \div pollInterval) * pollInterval)]_vars

\* C37 witness: after a successful read a later read has failed, and the
\* last-poll time is still the one the successful read stored.
C37_Witness ==
    /\ failedSince /\ prevRead >= 0 /\ cpc = "sleep" /\ now > prevRead
    /\ point_last_poll = <<(prevRead \div pollInterval) * pollInterval>>

====
